---------------------------- MODULE Spec2Model ----------------------------
(***************************************************************************)
(* Model of the command-sequence editing engine of TekkenCommand          *)
(* (src/src/hooks/useCommandInput.ts): the token buffer with cursor and   *)
(* selection, the scene/index/flag undo history, the discrete key router, *)
(* the asynchronous clipboard paste and the frame sampler.                 *)
(*                                                                         *)
(* The hook keeps React state (commands, cursorIndex, selection, ...) and  *)
(* ref mirrors of it (commandsRef, cursorIndexRef, selectionRef, ...) that *)
(* its effects copy from the state after each commit.  Handlers are        *)
(* operators from a session record to a session record; Render is the      *)
(* commit with its effects.  An action is one event: the handler followed  *)
(* by the commit React performs before it dispatches the next event.       *)
(***************************************************************************)
EXTENDS Integers, Sequences, FiniteSets, TLC

(* ------------------------------ bounds --------------------------------- *)

\* Longest token sequence the inserting actions build.
MaxLen == 2

\* History capacity H.  The source sets 100 (useCommandInput.ts:31); the
\* model scales it down so that eviction is reached.
HISTORY_MAX == 3

\* Largest number of clipboard reads in flight at once.
MaxPending == 1

\* Longest run of events explored.
MaxSteps == 5

(* --------------------------- program constants ------------------------- *)

HOLD_FRAME_THRESHOLD == 10
HEAT_DOUBLE_PRESS_MS == 400
DEFAULT_SLOTS_PER_ROW == 12

(* ------------------------------ helpers -------------------------------- *)

Min(a, b) == IF a < b THEN a ELSE b
Max(a, b) == IF a > b THEN a ELSE b

\* Array.prototype.slice(from, to) on a 1-based TLA+ sequence: a negative
\* index counts from the end, and both are clamped to [0, length].
slice(arr, from, to) ==
  LET len == Len(arr)
      lo == IF from < 0 THEN Max(len + from, 0) ELSE Min(from, len)
      hi == IF to < 0 THEN Max(len + to, 0) ELSE Min(to, len)
  IN IF lo >= hi THEN <<>> ELSE SubSeq(arr, lo + 1, hi)

\* [...prev.slice(0, at), ...items, ...prev.slice(endAt)]
splice(prev, at, endAt, items) ==
  slice(prev, 0, at) \o items \o slice(prev, endAt, Len(prev))

\* null, and a non-null value v of a nullable field
Null == <<>>
Some(v) == <<v>>
Val(o) == o[1]

Range(start, end) == [start |-> start, end |-> end]

\* sel && sel.start < sel.end
hasSel(sel) == sel # Null /\ Val(sel).start < Val(sel).end

Direction(v) == [type |-> "direction", value |-> v]
Button(v) == [type |-> "button", value |-> v]
Special(v) == [type |-> "special", value |-> v]
Notation(v) == [type |-> "notation", value |-> v]
Text(v) == [type |-> "text", value |-> v]

(* ------------------------------- state --------------------------------- *)

VARIABLES
  commands,        \* useState: the token sequence
  cursorIndex,     \* useState
  selection,       \* useState: Null or Some([start, end])
  isTextMode,      \* useState
  textEditIndex,   \* useState: Null or Some(i)
  currentText,     \* useState: the draft, a sequence of characters
  commandsRef,     \* mirrors, written by the effects
  cursorIndexRef,
  selectionRef,
  textEditIndexRef,
  pressedKeys,     \* ref: the set of held key codes
  history,         \* historyRef: the log of snapshots
  historyIndex,    \* historyIndexRef: idx (0-based)
  historyFlag,     \* historyFlagRef: 0 or 1
  scene,           \* sceneRef (1-based)
  prevDirection,   \* sampler refs
  framesHeld,
  prevButton,
  prevSpecial,
  didReplaceHeatWithSmash,
  lastHeatPressTime,
  now,             \* the wall clock read by Date.now(), in ms
  keyMapping,      \* keyMapping ref: defaultKeyMapping merged with customMapping
  pendingReads,    \* clipboard reads in flight: for each, the cursor when it was issued
  lastOp,          \* history variable: the last event and what it met
  steps,           \* history variable: the number of events so far
  rt,              \* history variable of the undo/redo round-trip scenario
  run,             \* history variable: the run of frames decoding one direction
  heatPress        \* history variable: the last frame that emitted a heat token

vars == <<commands, cursorIndex, selection, isTextMode, textEditIndex,
          currentText, commandsRef, cursorIndexRef, selectionRef,
          textEditIndexRef, pressedKeys, history, historyIndex, historyFlag,
          scene, prevDirection, framesHeld, prevButton, prevSpecial,
          didReplaceHeatWithSmash, lastHeatPressTime, now, pendingReads,
          keyMapping, lastOp, steps, rt, run,
          heatPress>>

\* The session as one record.  commandsChanged marks a setCommands call that
\* installed a new array since the last commit (the dependency the clamp
\* effect watches); it is FALSE between events.
Session ==
  [commands |-> commands, cursorIndex |-> cursorIndex, selection |-> selection,
   isTextMode |-> isTextMode, textEditIndex |-> textEditIndex,
   currentText |-> currentText, commandsRef |-> commandsRef,
   cursorIndexRef |-> cursorIndexRef, selectionRef |-> selectionRef,
   textEditIndexRef |-> textEditIndexRef, pressedKeys |-> pressedKeys,
   history |-> history, historyIndex |-> historyIndex,
   historyFlag |-> historyFlag, scene |-> scene,
   prevDirection |-> prevDirection, framesHeld |-> framesHeld,
   prevButton |-> prevButton, prevSpecial |-> prevSpecial,
   didReplaceHeatWithSmash |-> didReplaceHeatWithSmash,
   lastHeatPressTime |-> lastHeatPressTime, now |-> now,
   commandsChanged |-> FALSE]

Install(s) ==
  /\ commands' = s.commands
  /\ cursorIndex' = s.cursorIndex
  /\ selection' = s.selection
  /\ isTextMode' = s.isTextMode
  /\ textEditIndex' = s.textEditIndex
  /\ currentText' = s.currentText
  /\ commandsRef' = s.commandsRef
  /\ cursorIndexRef' = s.cursorIndexRef
  /\ selectionRef' = s.selectionRef
  /\ textEditIndexRef' = s.textEditIndexRef
  /\ pressedKeys' = s.pressedKeys
  /\ history' = s.history
  /\ historyIndex' = s.historyIndex
  /\ historyFlag' = s.historyFlag
  /\ scene' = s.scene
  /\ prevDirection' = s.prevDirection
  /\ framesHeld' = s.framesHeld
  /\ prevButton' = s.prevButton
  /\ prevSpecial' = s.prevSpecial
  /\ didReplaceHeatWithSmash' = s.didReplaceHeatWithSmash
  /\ lastHeatPressTime' = s.lastHeatPressTime
  /\ now' = s.now

initialHistoryState == [commands |-> <<>>, cursorIndex |-> 0, selection |-> Null]

(* ------------------------- setState shorthands ------------------------- *)

setCommands(s, next) == [s EXCEPT !.commands = next, !.commandsChanged = TRUE]
setCursorIndexState(s, next) == [s EXCEPT !.cursorIndex = next]
setSelectionState(s, next) == [s EXCEPT !.selection = next]

(* --------------------- the commit and its effects ---------------------- *)

\* The clamp of the selection in the effect on [commands.length, commands].
clampSelection(s) ==
  IF s.selection = Null THEN Null
  ELSE IF s.selectionRef = Null THEN Null
  ELSE LET start == Min(Val(s.selection).start, Len(s.commands))
           end == Min(Val(s.selection).end, Len(s.commands))
       IN IF start < end THEN Some(Range(start, end)) ELSE Null

\* One commit: the mirror effects, the clamp effect when commands changed,
\* and the commit of what the clamp set.
Render(s) ==
  LET s1 == [s EXCEPT !.cursorIndexRef = s.cursorIndex,
                      !.selectionRef = s.selection,
                      !.textEditIndexRef = s.textEditIndex]
      s2 == IF s.commandsChanged
            THEN [s1 EXCEPT !.commandsRef = s1.commands,
                            !.cursorIndex = Min(s1.cursorIndex, Len(s1.commands)),
                            !.selection = clampSelection(s1)]
            ELSE s1
  IN [s2 EXCEPT !.cursorIndexRef = s2.cursorIndex,
                !.selectionRef = s2.selection,
                !.commandsChanged = FALSE]

(* ------------------------------ history -------------------------------- *)

snapshotFromRefs(s) ==
  [commands |-> s.commandsRef, cursorIndex |-> s.cursorIndexRef,
   selection |-> s.selectionRef]

\* Variant of pushHistory that never drops the entries after idx.
pushHistoryKeepingRedo(s, truncateRedo) ==
  IF s.historyIndex = 0 /\ s.scene = 1
  THEN [s EXCEPT !.scene = 2, !.historyFlag = 0]
  ELSE LET pushed == Append(s.history, snapshotFromRefs(s))
           shifts == Max(0, Len(pushed) - HISTORY_MAX)
           kept == SubSeq(pushed, shifts + 1, Len(pushed))
       IN [s EXCEPT !.history = kept,
                    !.historyIndex = Len(pushed) - 1 - shifts,
                    !.historyFlag = 0,
                    !.scene = Len(kept) + 1]

\* Variant of pushHistory that evicts without moving idx down.
pushHistoryShiftOnly(s, truncateRedo) ==
  IF s.historyIndex = 0 /\ s.scene = 1
  THEN [s EXCEPT !.history = IF truncateRedo THEN SubSeq(@, 1, 1) ELSE @,
                 !.scene = 2,
                 !.historyFlag = 0]
  ELSE LET truncated == IF truncateRedo
                        THEN SubSeq(s.history, 1, s.historyIndex + 1)
                        ELSE s.history
           pushed == Append(truncated, snapshotFromRefs(s))
           shifts == Max(0, Len(pushed) - HISTORY_MAX)
           kept == SubSeq(pushed, shifts + 1, Len(pushed))
       IN [s EXCEPT !.history = kept,
                    !.historyIndex = Len(pushed) - 1,
                    !.historyFlag = 0,
                    !.scene = Len(kept) + 1]

\* Variant of pushHistory without the first-edit case.
pushHistoryEveryEdit(s, truncateRedo) ==
  LET truncated == IF truncateRedo
                   THEN SubSeq(s.history, 1, s.historyIndex + 1)
                   ELSE s.history
      pushed == Append(truncated, snapshotFromRefs(s))
      shifts == Max(0, Len(pushed) - HISTORY_MAX)
      kept == SubSeq(pushed, shifts + 1, Len(pushed))
  IN [s EXCEPT !.history = kept,
               !.historyIndex = Len(pushed) - 1 - shifts,
               !.historyFlag = 0,
               !.scene = Len(kept) + 1]

pushHistory(s, truncateRedo) ==
  IF s.historyIndex = 0 /\ s.scene = 1
  THEN [s EXCEPT !.history = IF truncateRedo THEN SubSeq(@, 1, 1) ELSE @,
                 !.scene = 2,
                 !.historyFlag = 0]
  ELSE LET truncated == IF truncateRedo
                        THEN SubSeq(s.history, 1, s.historyIndex + 1)
                        ELSE s.history
           pushed == Append(truncated, snapshotFromRefs(s))
           \* while (history.length > HISTORY_MAX) { shift(); idx-- }
           shifts == Max(0, Len(pushed) - HISTORY_MAX)
           kept == SubSeq(pushed, shifts + 1, Len(pushed))
       IN [s EXCEPT !.history = kept,
                    !.historyIndex = Len(pushed) - 1 - shifts,
                    !.historyFlag = 0,
                    !.scene = Len(kept) + 1]

\* Variant of tryPushUndoState that pushes whatever the trigger and the flag.
tryPushUndoStateAlways(s, trigger) == pushHistory(s, TRUE)

\* Variant of tryPushUndoState that pushes only with the flag set, whatever
\* the trigger.
tryPushUndoStateFlagOnly(s, trigger) ==
  IF s.historyFlag # 1
  THEN [s EXCEPT !.scene = Len(s.history) + 1]
  ELSE pushHistory(s, TRUE)

tryPushUndoState(s, trigger) ==
  IF trigger = "insert" /\ s.historyFlag # 1
  THEN [s EXCEPT !.scene = Len(s.history) + 1]
  ELSE pushHistory(s, TRUE)

\* Restoring a snapshot: setCommands, setCursorIndexState, setSelectionState.
restore(s, cmds, snap) ==
  setSelectionState(setCursorIndexState(setCommands(s, cmds), snap.cursorIndex),
                    snap.selection)

\* Variant of undo that stores the restored entry's 0-based index in scene
\* instead of its 1-based ordinal.
undoSceneAtIndex(s) ==
  LET idx == s.historyIndex
      h == IF idx + 1 = Len(s.history)
           THEN Append(s.history, snapshotFromRefs(s))
           ELSE s.history
      s1 == [s EXCEPT !.history = h]
      s2 == IF idx + 1 < s.scene
            THEN LET snap == h[idx + 1]
                     r == restore(s1, IF idx = 0 THEN <<>> ELSE snap.commands, snap)
                 IN [r EXCEPT !.historyIndex = IF idx > 0 THEN idx - 1 ELSE idx,
                              !.scene = idx]
            ELSE s1
  IN [s2 EXCEPT !.historyFlag = 1]

\* Variant of undo that never stores the live state before restoring.
undoWithoutTipPush(s) ==
  LET idx == s.historyIndex
      s2 == IF idx + 1 < s.scene
            THEN LET snap == s.history[idx + 1]
                     r == restore(s, IF idx = 0 THEN <<>> ELSE snap.commands, snap)
                 IN [r EXCEPT !.historyIndex = IF idx > 0 THEN idx - 1 ELSE idx,
                              !.scene = idx + 1]
            ELSE s
  IN [s2 EXCEPT !.historyFlag = 1]

\* Variant of undo that does nothing at all unless idx + 1 < scene.
undoGuarded(s) ==
  LET idx == s.historyIndex
      h == IF idx + 1 = Len(s.history)
           THEN Append(s.history, snapshotFromRefs(s))
           ELSE s.history
      snap == h[idx + 1]
      r == restore([s EXCEPT !.history = h],
                   IF idx = 0 THEN <<>> ELSE snap.commands, snap)
  IN IF idx + 1 < s.scene
     THEN [r EXCEPT !.historyIndex = IF idx > 0 THEN idx - 1 ELSE idx,
                    !.scene = idx + 1,
                    !.historyFlag = 1]
     ELSE s

\* Variant of undo that counts scene from idx after the decrement.
undoSceneFromNewIndex(s) ==
  LET idx == s.historyIndex
      h == IF idx + 1 = Len(s.history)
           THEN Append(s.history, snapshotFromRefs(s))
           ELSE s.history
      s1 == [s EXCEPT !.history = h]
      s2 == IF idx + 1 < s.scene
            THEN LET snap == h[idx + 1]
                     r == restore(s1, IF idx = 0 THEN <<>> ELSE snap.commands, snap)
                     down == IF idx > 0 THEN idx - 1 ELSE idx
                 IN [r EXCEPT !.historyIndex = down, !.scene = down + 1]
            ELSE s1
  IN [s2 EXCEPT !.historyFlag = 1]

\* Variant of undo that leaves the flag as it finds it.
undoKeepingFlag(s) ==
  LET idx == s.historyIndex
      h == IF idx + 1 = Len(s.history)
           THEN Append(s.history, snapshotFromRefs(s))
           ELSE s.history
      s1 == [s EXCEPT !.history = h]
  IN IF idx + 1 < s.scene
     THEN LET snap == h[idx + 1]
              r == restore(s1, IF idx = 0 THEN <<>> ELSE snap.commands, snap)
          IN [r EXCEPT !.historyIndex = IF idx > 0 THEN idx - 1 ELSE idx,
                       !.scene = idx + 1]
     ELSE s1

undo(s) ==
  LET idx == s.historyIndex
      sc == s.scene
      h == IF idx + 1 = Len(s.history)
           THEN Append(s.history, snapshotFromRefs(s))
           ELSE s.history
      s1 == [s EXCEPT !.history = h]
      s2 == IF idx + 1 < sc
            THEN LET snap == h[idx + 1]
                     r == restore(s1, IF idx = 0 THEN <<>> ELSE snap.commands, snap)
                 IN [r EXCEPT !.historyIndex = IF idx > 0 THEN idx - 1 ELSE idx,
                              !.scene = idx + 1]
            ELSE s1
  IN [s2 EXCEPT !.historyFlag = 1]

\* Variant of redo that sets flag only in the two restoring cases.
redoFlagOnRestore(s) ==
  LET idx == s.historyIndex
      h == s.history
  IN IF idx + 1 < s.scene
     THEN IF idx + 2 < Len(h)
          THEN LET snap == h[idx + 3]
                   r == restore(s, snap.commands, snap)
               IN [r EXCEPT !.historyIndex = idx + 1, !.scene = idx + 3,
                            !.historyFlag = 1]
          ELSE s
     ELSE IF idx + 1 < Len(h)
          THEN LET snap == h[idx + 2]
                   r == restore(s, snap.commands, snap)
               IN [r EXCEPT !.scene = idx + 2, !.historyFlag = 1]
          ELSE s

\* Variant of redo whose first case counts scene from idx before the step.
redoSceneBehind(s) ==
  LET idx == s.historyIndex
      h == s.history
      s1 == IF idx + 1 < s.scene
            THEN IF idx + 2 < Len(h)
                 THEN LET snap == h[idx + 3]
                          r == restore(s, snap.commands, snap)
                      IN [r EXCEPT !.historyIndex = idx + 1, !.scene = idx + 2]
                 ELSE s
            ELSE IF idx + 1 < Len(h)
                 THEN LET snap == h[idx + 2]
                          r == restore(s, snap.commands, snap)
                      IN [r EXCEPT !.scene = idx + 2]
                 ELSE s
  IN [s1 EXCEPT !.historyFlag = 1]

redo(s) ==
  LET idx == s.historyIndex
      sc == s.scene
      h == s.history
      s1 == IF idx + 1 < sc
            THEN IF idx + 2 < Len(h)
                 THEN LET snap == h[idx + 3]
                          r == restore(s, snap.commands, snap)
                      IN [r EXCEPT !.historyIndex = idx + 1, !.scene = idx + 3]
                 ELSE s
            ELSE IF idx + 1 < Len(h)
                 THEN LET snap == h[idx + 2]
                          r == restore(s, snap.commands, snap)
                      IN [r EXCEPT !.scene = idx + 2]
                 ELSE s
  IN [s1 EXCEPT !.historyFlag = 1]


(* ------------------------- cursor and selection ------------------------ *)

\* commandsLengthRef.current: written together with commandsRef (line 140).
commandsLengthRef(s) == Len(s.commandsRef)

\* setCursorIndexInternal: the clamp uses commands.length of the last commit.
setCursorIndexInternal(s, value) ==
  setCursorIndexState(s, Max(0, Min(Len(s.commandsRef), value)))

setCursorIndex(s, value) ==
  setCursorIndexInternal([s EXCEPT !.historyFlag = 1], value)

setSelectionWrapped(s, value) ==
  setSelectionState([s EXCEPT !.historyFlag = 1], value)

selectAll(s) ==
  LET len == commandsLengthRef(s)
  IN IF len > 0
     THEN setCursorIndexState(setSelectionState(s, Some(Range(0, len))), len)
     ELSE s

clearSelectionAndMoveCursorToEnd(s) ==
  setCursorIndexState(setSelectionState(s, Null), Len(s.commandsRef))

\* The selection a Shift+Arrow press leaves, moving the cursor to newCursor.
\* towardStart: ArrowLeft / ArrowUp; otherwise ArrowRight / ArrowDown.
shiftSelection(s, newCursor, towardStart) ==
  LET cur == s.cursorIndexRef
      sel == s.selectionRef
  IN IF hasSel(sel)
     THEN LET anchor == Val(sel).start + Val(sel).end - cur
              newStart == Min(newCursor, anchor)
              newEnd == Max(newCursor, anchor)
          IN IF newStart < newEnd THEN Some(Range(newStart, newEnd)) ELSE Null
     ELSE IF towardStart
          THEN IF newCursor < cur THEN Some(Range(newCursor, cur)) ELSE Null
          ELSE IF newCursor > cur THEN Some(Range(cur, newCursor)) ELSE Null

keyArrowLeft(s, shiftKey) ==
  LET s0 == [s EXCEPT !.historyFlag = 1]
  IN IF shiftKey
     THEN LET newCursor == Max(0, s.cursorIndexRef - 1)
          IN setCursorIndexState(
               setSelectionState(s0, shiftSelection(s, newCursor, TRUE)), newCursor)
     ELSE setCursorIndexState(setSelectionState(s0, Null),
                              Max(0, s.cursorIndex - 1))

keyArrowRight(s, shiftKey) ==
  LET s0 == [s EXCEPT !.historyFlag = 1]
  IN IF shiftKey
     THEN LET newCursor == Min(commandsLengthRef(s), s.cursorIndexRef + 1)
          IN setCursorIndexState(
               setSelectionState(s0, shiftSelection(s, newCursor, FALSE)), newCursor)
     ELSE setCursorIndexState(setSelectionState(s0, Null),
                              Min(commandsLengthRef(s), s.cursorIndex + 1))

\* ArrowDown / ArrowUp.  j is what the slot layout answers (findSlotRowBelow /
\* findSlotRowAbove): a slot index, or -1 when there is no such row or no
\* layout, which falls back to the fixed stride.
keyArrowDown(s, shiftKey, j) ==
  LET s0 == [s EXCEPT !.historyFlag = 1]
      cur == s.cursorIndexRef
      newCursor == IF j >= 0 THEN j
                   ELSE Min(commandsLengthRef(s), cur + DEFAULT_SLOTS_PER_ROW)
  IN IF shiftKey
     THEN setCursorIndexState(
            setSelectionState(s0, shiftSelection(s, newCursor, FALSE)), newCursor)
     ELSE setCursorIndexState(setSelectionState(s0, Null), newCursor)

keyArrowUp(s, shiftKey, j) ==
  LET s0 == [s EXCEPT !.historyFlag = 1]
      cur == s.cursorIndexRef
      newCursor == IF j >= 0 THEN j ELSE Max(0, cur - DEFAULT_SLOTS_PER_ROW)
  IN IF shiftKey
     THEN setCursorIndexState(
            setSelectionState(s0, shiftSelection(s, newCursor, TRUE)), newCursor)
     ELSE setCursorIndexState(setSelectionState(s0, Null), newCursor)

keyHome(s, shiftKey) ==
  LET s0 == [s EXCEPT !.historyFlag = 1]
      cur == s.cursorIndexRef
      sel == IF shiftKey /\ cur > 0 THEN Some(Range(0, cur)) ELSE Null
  IN setCursorIndexState(setSelectionState(s0, sel), 0)

keyEnd(s, shiftKey) ==
  LET s0 == [s EXCEPT !.historyFlag = 1]
      len == commandsLengthRef(s)
      cur == s.cursorIndexRef
      sel == IF shiftKey /\ cur < len THEN Some(Range(cur, len)) ELSE Null
  IN setCursorIndexState(setSelectionState(s0, sel), len)

\* Ctrl+A
keySelectAll(s) == selectAll([s EXCEPT !.historyFlag = 1])

(* ------------------------------- editing ------------------------------- *)

insertCommandAtCursor(s, item) ==
  LET sel == s.selectionRef
      hs == hasSel(sel)
      s1 == IF hs THEN [s EXCEPT !.selectionRef = Null] ELSE s
      at == IF hs THEN Val(sel).start ELSE Min(s.cursorIndexRef, Len(s.commands))
      endAt == IF hs THEN Val(sel).end ELSE at
      s2 == setCommands(s1, splice(s.commands, at, endAt, <<item>>))
      nextCursor == IF hs THEN Val(sel).start + 1 ELSE s.cursorIndexRef + 1
      s3 == setCursorIndexState(s2, nextCursor)
  IN IF hs THEN setSelectionState(s3, Null) ELSE s3

\* Space, [ ] ( ) ~ : tryPushUndoState('insert') then addCommand.
keyNotation(s, value) ==
  insertCommandAtCursor(tryPushUndoState(s, "insert"), Notation(value))

\* Backslash: tryPushUndoState('always') then addCommand(linebreak).
keyLinebreak(s) ==
  insertCommandAtCursor(tryPushUndoState(s, "always"), Notation("linebreak"))

\* The removal of the selected range shared by Backspace, Delete and cut.
deleteRange(s, sel) ==
  setSelectionState(
    setCursorIndexState(
      setCommands(s, splice(s.commands, Val(sel).start, Val(sel).end, <<>>)),
      Val(sel).start),
    Null)

keyBackspace(s) ==
  LET s0 == tryPushUndoState(s, "always")
      sel == s0.selectionRef
  IN IF hasSel(sel)
     THEN deleteRange(s0, sel)
     ELSE LET idx == Min(s0.cursorIndexRef, Len(s0.commands))
              s1 == IF idx <= 0 THEN s0
                    ELSE setCommands(s0, splice(s0.commands, idx - 1, idx, <<>>))
          IN setCursorIndexState(s1, IF s0.cursorIndex > 0
                                     THEN s0.cursorIndex - 1 ELSE 0)

keyDelete(s) ==
  LET s0 == tryPushUndoState(s, "always")
      sel == s0.selectionRef
  IN IF hasSel(sel)
     THEN deleteRange(s0, sel)
     ELSE LET idx == Min(s0.cursorIndexRef, Len(s0.commands))
          IN IF idx >= Len(s0.commands) THEN s0
             ELSE setCommands(s0, splice(s0.commands, idx, idx + 1, <<>>))

\* Ctrl+X and cutToClipboard: nothing happens without a selection.
cutToClipboard(s) ==
  LET sel == s.selectionRef
  IN IF ~hasSel(sel) \/ Len(s.commandsRef) = 0 THEN s
     ELSE deleteRange(tryPushUndoState(s, "always"), sel)

clearCommands(s) ==
  LET s0 == tryPushUndoState(s, "always")
      s1 == setSelectionState(setCursorIndexState(setCommands(s0, <<>>), 0), Null)
  IN [s1 EXCEPT !.currentText = <<>>, !.isTextMode = FALSE,
                !.prevDirection = "null", !.framesHeld = 0,
                !.prevButton = "null", !.prevSpecial = "null"]

removeLastCommand(s) ==
  setCursorIndexState(
    setCommands(s, slice(s.commands, 0, Len(s.commands) - 1)),
    Max(0, s.cursorIndex - 1))

\* Variant of the continuation that pastes at the cursor and selection the
\* oldest pending read was issued with.
pasteAtIssue(s, toInsert) ==
  IF Len(toInsert) = 0 THEN s
  ELSE LET s0 == tryPushUndoState(s, "always")
           sel == Head(pendingReads).selection
           idx == Head(pendingReads).cursor
           hs == hasSel(sel)
           at == IF hs THEN Val(sel).start ELSE Min(idx, Len(s0.commands))
           endAt == IF hs THEN Val(sel).end ELSE at
           newCursor == (IF hs THEN Val(sel).start ELSE idx) + Len(toInsert)
       IN setSelectionState(
            setCursorIndexState(
              setCommands(s0, splice(s0.commands, at, endAt, toInsert)),
              newCursor),
            Null)

\* The continuation of navigator.clipboard.readText(): toInsert is
\* parsePasteText(text).
pasteResolved(s, toInsert) ==
  IF Len(toInsert) = 0 THEN s
  ELSE LET s0 == tryPushUndoState(s, "always")
           sel == s0.selectionRef
           idx == s0.cursorIndexRef
           hs == hasSel(sel)
           at == IF hs THEN Val(sel).start ELSE Min(idx, Len(s0.commands))
           endAt == IF hs THEN Val(sel).end ELSE at
           newCursor == (IF hs THEN Val(sel).start ELSE idx) + Len(toInsert)
       IN setSelectionState(
            setCursorIndexState(
              setCommands(s0, splice(s0.commands, at, endAt, toInsert)),
              newCursor),
            Null)


(* ------------------------------ text mode ------------------------------ *)

\* A draft is a sequence of one-character strings; a Text token carries the
\* JavaScript string of its characters.
RECURSIVE trimStart(_)
trimStart(q) == IF q # <<>> /\ Head(q) = " " THEN trimStart(Tail(q)) ELSE q

RECURSIVE trimEnd(_)
trimEnd(q) ==
  IF q # <<>> /\ q[Len(q)] = " " THEN trimEnd(SubSeq(q, 1, Len(q) - 1)) ELSE q

\* String.prototype.trim
trim(q) == trimEnd(trimStart(q))

RECURSIVE join(_)
join(q) == IF q = <<>> THEN "" ELSE Head(q) \o join(Tail(q))

\* Longest draft typed, and the characters typed.
MaxText == 2
Chars == {"a", " "}

RECURSIVE SeqsUpTo(_, _)
SeqsUpTo(S, n) ==
  IF n = 0 THEN {<<>>}
  ELSE LET shorter == SeqsUpTo(S, n - 1)
       IN shorter \cup {Append(q, c) : q \in shorter, c \in S}

Drafts == SeqsUpTo(Chars, MaxText)

\* The characters of a token's string value (setCurrentText(cmd.value)).
chars(str) == CHOOSE q \in Drafts : join(q) = str

toggleTextMode(s) ==
  LET prev == s.isTextMode
      trimmed == trim(s.currentText)
      s1 == IF prev /\ trimmed # <<>>
            THEN LET idx == Min(s.cursorIndexRef, Len(s.commands))
                     c == setCommands(s, splice(s.commands, idx, idx,
                                                <<Text(join(trimmed))>>))
                 IN [setCursorIndexState(c, s.cursorIndex + 1)
                       EXCEPT !.currentText = <<>>]
            ELSE s
  IN [s1 EXCEPT !.pressedKeys = {}, !.isTextMode = ~prev]

updateText(s, text) == [s EXCEPT !.currentText = text]

\* Backspace in text mode, outside the input element: prev.slice(0, -1)
textBackspace(s) ==
  [s EXCEPT !.currentText = slice(@, 0, Len(@) - 1)]

\* Escape in text mode
textEscape(s) ==
  [s EXCEPT !.textEditIndex = Null, !.isTextMode = FALSE, !.currentText = <<>>]

\* finishTextInput committing the draft as typed, without trim.
finishTextInputUntrimmed(s, value) ==
  LET s0 == tryPushUndoState(s, "always")
      editingAt == s0.textEditIndexRef
      s1 == IF editingAt # Null
            THEN LET c == IF value # <<>>
                          THEN setCommands(s0,
                                 [i \in 1..Len(s0.commands) |->
                                    IF i - 1 = Val(editingAt)
                                    THEN Text(join(value))
                                    ELSE s0.commands[i]])
                          ELSE s0
                 IN [c EXCEPT !.textEditIndex = Null]
            ELSE IF value # <<>>
                 THEN LET idx == Min(s0.cursorIndexRef, Len(s0.commands))
                      IN setCursorIndexState(
                           setCommands(s0, splice(s0.commands, idx, idx,
                                                  <<Text(join(value))>>)),
                           s0.cursorIndex + 1)
                 ELSE s0
  IN [s1 EXCEPT !.currentText = <<>>, !.pressedKeys = {}, !.isTextMode = FALSE]

finishTextInput(s, value) ==
  LET s0 == tryPushUndoState(s, "always")
      trimmed == trim(value)
      editingAt == s0.textEditIndexRef
      s1 == IF editingAt # Null
            THEN LET c == IF trimmed # <<>>
                          THEN setCommands(s0,
                                 [i \in 1..Len(s0.commands) |->
                                    IF i - 1 = Val(editingAt)
                                    THEN Text(join(trimmed))
                                    ELSE s0.commands[i]])
                          ELSE s0
                 IN [c EXCEPT !.textEditIndex = Null]
            ELSE IF trimmed # <<>>
                 THEN LET idx == Min(s0.cursorIndexRef, Len(s0.commands))
                      IN setCursorIndexState(
                           setCommands(s0, splice(s0.commands, idx, idx,
                                                  <<Text(join(trimmed))>>)),
                           s0.cursorIndex + 1)
                 ELSE s0
  IN [s1 EXCEPT !.currentText = <<>>, !.pressedKeys = {}, !.isTextMode = FALSE]

startTextEdit(s, index) ==
  IF index < Len(s.commandsRef) /\ s.commandsRef[index + 1].type = "text"
  THEN [s EXCEPT !.currentText = chars(s.commandsRef[index + 1].value),
                 !.textEditIndex = Some(index),
                 !.isTextMode = TRUE]
  ELSE s

\* handleKeyDown for a key with no modifier.  In text mode (lines 304-331)
\* only Enter, Backspace and Escape act; outside it the key reaches its own
\* branch, or is added to the held keys.
handleKeyDownSampling(s, code) ==
  CASE code = "Delete" -> keyDelete(s)
    [] code = "BracketLeft" -> keyNotation(s, "bracketl")
    [] OTHER -> [s EXCEPT !.pressedKeys = @ \cup {code}]

handleKeyDown(s, code) ==
  IF s.isTextMode
  THEN CASE code = "Enter" -> toggleTextMode(s)
         [] code = "Backspace" -> textBackspace(s)
         [] code = "Escape" -> textEscape(s)
         [] OTHER -> s
  ELSE handleKeyDownSampling(s, code)

(* ------------------------------ key mapping ---------------------------- *)

\* defaultKeyMapping; buttons are keyed by the set of button numbers that the
\* name ('1', '1+2', ...) splits into.
defaultKeyMapping ==
  [directions |-> [u |-> {"KeyW"}, d |-> {"KeyS"}, f |-> {"KeyD"},
                   b |-> {"KeyA"}, n |-> {}],
   buttons |-> [ns \in (SUBSET (1..4)) \ {{}} |->
                  CASE ns = {1} -> {"Numpad4"}
                    [] ns = {2} -> {"Numpad5"}
                    [] ns = {3} -> {"Numpad1"}
                    [] ns = {4} -> {"Numpad2"}
                    [] ns = {1, 2} -> {"Numpad6"}
                    [] ns = {3, 4} -> {"Numpad3"}
                    [] OTHER -> {}],
   special |-> [heat |-> {"Numpad7"}, rage |-> {"Numpad9"}]]

\* keys.every((k) => set.has(k))
setHasAll(set, keys) == keys \subseteq set

getDiagonalKeys(dirs) ==
  <<[name |-> "ub", keys |-> dirs.u \cup dirs.b],
    [name |-> "uf", keys |-> dirs.u \cup dirs.f],
    [name |-> "db", keys |-> dirs.d \cup dirs.b],
    [name |-> "df", keys |-> dirs.d \cup dirs.f]>>

\* The name of the first entry whose keys are bound and all held, or "null".
RECURSIVE firstHeld(_, _)
firstHeld(entries, held) ==
  IF entries = <<>> THEN "null"
  ELSE IF Head(entries).keys # {} /\ setHasAll(held, Head(entries).keys)
       THEN Head(entries).name
       ELSE firstHeld(Tail(entries), held)

findDirectionFromKeys(held, mapping) ==
  LET dirs == mapping.directions
      diagonal == firstHeld(getDiagonalKeys(dirs), held)
  IN IF diagonal # "null" THEN diagonal
     ELSE firstHeld(<<[name |-> "u", keys |-> dirs.u],
                      [name |-> "d", keys |-> dirs.d],
                      [name |-> "f", keys |-> dirs.f],
                      [name |-> "b", keys |-> dirs.b]>>, held)

\* sorted.join('+')
RECURSIVE joinButtons(_)
joinButtons(ns) ==
  LET m == CHOOSE x \in ns : \A y \in ns : x <= y
      digit == <<"1", "2", "3", "4">>
  IN IF ns = {m} THEN digit[m]
     ELSE digit[m] \o "+" \o joinButtons(ns \ {m})

findButtonFromKeys(held, mapping) ==
  LET bound(ns) == mapping.buttons[ns] # {} /\ setHasAll(held, mapping.buttons[ns])
      singles == {b \in 1..4 : bound({b})}
      combos == UNION {ns \in DOMAIN mapping.buttons :
                         Cardinality(ns) > 1 /\ bound(ns)}
      pressed == singles \cup combos
  IN IF pressed = {} THEN "null" ELSE joinButtons(pressed)

findSpecialFromKeys(held, mapping) ==
  IF mapping.special.heat \cap held # {} THEN "heat"
  ELSE IF mapping.special.rage \cap held # {} THEN "rage"
  ELSE "null"


(* ------------------------------ the sampler ---------------------------- *)

TapDirections == {"u", "d", "f", "b", "ub", "uf", "db", "df"}
HoldDirections == {d \o "hold" : d \in TapDirections}

\* value.endsWith('hold')
endsWithHold(v) == v \in HoldDirections

\* value.replace(/hold$/, '')
stripHold(v) ==
  IF endsWithHold(v) THEN CHOOSE d \in TapDirections : d \o "hold" = v ELSE v

toHoldNotation(dir) ==
  IF dir = "null" \/ dir = "n" THEN "null"
  ELSE IF endsWithHold(dir) THEN dir
  ELSE stripHold(dir) \o "hold"

\* The commit of a frame's tokens (the setCommands, setSelectionState and
\* setCursorIndexState calls of tick): s0 is the session after
\* tryPushUndoState, idx the cursor mirror read at the top of the frame.
\* eager: whether React ran the setCommands updater inside the call, so that
\* didReplaceWithHoldRef is already written when line 759 reads it.
tickCommit(s0, toAdd, idx, eager) ==
  LET sel == s0.selectionRef
      hs == hasSel(s0.selectionRef)
      replaceHeatWithSmash == /\ s0.didReplaceHeatWithSmash
                              /\ Len(toAdd) = 1
                              /\ toAdd[1] = Special("heatSmash")
      onlyHold == /\ Len(toAdd) = 1
                  /\ toAdd[1].type = "direction"
                  /\ endsWithHold(toAdd[1].value)
      holdBase == IF onlyHold THEN stripHold(toAdd[1].value) ELSE ""
      prev == s0.commands
      at == IF hs THEN Val(sel).start ELSE Min(idx, Len(prev))
      endAt == IF hs THEN Val(sel).end ELSE at
      heatCase == /\ replaceHeatWithSmash
                  /\ at > 0
                  /\ at <= Len(prev)
                  /\ prev[at] = Special("heat")
      holdCase == /\ ~heatCase
                  /\ onlyHold
                  /\ at > 0
                  /\ at <= Len(prev)
                  /\ prev[at].type = "direction"
                  /\ ~endsWithHold(prev[at].value)
                  /\ prev[at].value = holdBase
      next == IF heatCase \/ holdCase
              THEN splice(prev, at - 1, endAt, toAdd)
              ELSE splice(prev, at, endAt, toAdd)
      didReplaceWithHold == holdCase /\ eager
      cursor == IF didReplaceWithHold \/ replaceHeatWithSmash
                THEN IF hs THEN Val(sel).start ELSE idx
                ELSE IF hs THEN Val(sel).start + Len(toAdd)
                     ELSE Min(idx, Len(s0.commandsRef)) + Len(toAdd)
      s1 == setSelectionState(setCommands(s0, next), Null)
  IN [setCursorIndexState(s1, cursor)
        EXCEPT !.selectionRef = IF hs THEN Null ELSE @,
               !.cursorIndexRef = cursor]

\* The direction part of a frame (lines 675-688): the hold counter and the
\* direction token the frame decides, if any.
sampleDirection(s, dir) ==
  LET dirChanged == dir # s.prevDirection
      counting == ~dirChanged /\ dir # "null" /\ dir # "n"
      frames == IF dirChanged THEN (IF dir # "null" THEN 1 ELSE 0)
                ELSE IF counting THEN s.framesHeld + 1 ELSE s.framesHeld
  IN [frames |-> frames,
      toAdd |-> IF dirChanged
                THEN IF dir # "null" THEN <<Direction(dir)>> ELSE <<>>
                ELSE IF counting /\ frames = HOLD_FRAME_THRESHOLD
                          /\ toHoldNotation(dir) # "null"
                     THEN <<Direction(toHoldNotation(dir))>>
                     ELSE <<>>]

\* The button part of a frame (lines 690-693).
sampleButton(s, btn) ==
  IF btn # s.prevButton /\ btn # "null" THEN <<Button(btn)>> ELSE <<>>

\* sampleSpecial without the double press: every heat press decides a heat
\* token.
sampleSpecialSingle(s, special) ==
  [toAdd |-> IF special # s.prevSpecial /\ special # "null"
             THEN <<Special(special)>>
             ELSE <<>>,
   didReplaceHeatWithSmash |-> s.didReplaceHeatWithSmash,
   lastHeatPressTime |->
     IF special # s.prevSpecial /\ special = "heat" THEN s.now
     ELSE s.lastHeatPressTime]

\* The special part of a frame (lines 695-719): the token it decides and what
\* a heat press leaves in didReplaceHeatWithSmashRef and lastHeatPressTimeRef.
sampleSpecial(s, special) ==
  LET heatEdge == special # s.prevSpecial /\ special = "heat"
      idx == s.cursorIndexRef
      isDoublePress == /\ s.lastHeatPressTime > 0
                       /\ s.now - s.lastHeatPressTime < HEAT_DOUBLE_PRESS_MS
      willReplaceHeatWithSmash ==
        /\ isDoublePress
        /\ idx > 0
        /\ idx <= Len(s.commandsRef)
        /\ s.commandsRef[idx] = Special("heat")
  IN [toAdd |-> IF special # s.prevSpecial /\ special # "null"
                THEN IF special = "heat"
                     THEN <<Special(IF isDoublePress THEN "heatSmash" ELSE "heat")>>
                     ELSE <<Special(special)>>
                ELSE <<>>,
      didReplaceHeatWithSmash |->
        IF heatEdge THEN willReplaceHeatWithSmash ELSE s.didReplaceHeatWithSmash,
      lastHeatPressTime |->
        IF heatEdge
        THEN IF willReplaceHeatWithSmash THEN 0 ELSE s.now
        ELSE s.lastHeatPressTime]

\* The tokens a frame decides, in the order direction, button, special.
frameTokens(s, dir, btn, special) ==
  sampleDirection(s, dir).toAdd \o sampleButton(s, btn)
    \o sampleSpecial(s, special).toAdd

\* The frame once the held keys are decoded to dir, btn and special: edge
\* detection, the hold counter, the heat double press, then the commit.
tickDecoded(s, dir, btn, special, eager) ==
  LET d == sampleDirection(s, dir)
      sp == sampleSpecial(s, special)
      toAdd == d.toAdd \o sampleButton(s, btn) \o sp.toAdd
      idx == s.cursorIndexRef
      sampled == [s EXCEPT !.prevDirection = dir,
                           !.framesHeld = d.frames,
                           !.prevButton = btn,
                           !.prevSpecial = special,
                           !.didReplaceHeatWithSmash = sp.didReplaceHeatWithSmash,
                           !.lastHeatPressTime = sp.lastHeatPressTime]
  IN IF toAdd = <<>> THEN sampled
     ELSE tickCommit(tryPushUndoState(sampled, "insert"), toAdd, idx, eager)

\* One frame of the sampler (the body of tick after the rate limiter).
tick(s, eager) ==
  IF s.isTextMode THEN s
  ELSE tickDecoded(s, findDirectionFromKeys(s.pressedKeys, keyMapping),
                   findButtonFromKeys(s.pressedKeys, keyMapping),
                   findSpecialFromKeys(s.pressedKeys, keyMapping), eager)


(* ------------------------------ clipboard ------------------------------ *)

DIRECTION_TOKENS == TapDirections \cup HoldDirections \cup {"n"}

BUTTON_TOKENS == {joinButtons(ns) : ns \in (SUBSET (1..4)) \ {{}}}

Word(raw) == [raw |-> raw, quoted |-> FALSE]
Quoted(raw) == [raw |-> raw, quoted |-> TRUE]

\* The loop of parsePasteText over the tokens tokenize returns.
RECURSIVE parseTokens(_)
parseTokens(tokens) ==
  IF tokens = <<>> THEN <<>>
  ELSE LET raw == Head(tokens).raw
           item ==
             IF Head(tokens).quoted THEN <<Text(raw)>>
             ELSE IF raw = "[" THEN <<Notation("bracketl")>>
             ELSE IF raw = "]" THEN <<Notation("bracketr")>>
             ELSE IF raw = "(" THEN <<Notation("parenl")>>
             ELSE IF raw = ")" THEN <<Notation("parenr")>>
             ELSE IF raw = "~" THEN <<Notation("tilde")>>
             ELSE IF raw = "next" \/ raw = "▶" THEN <<Notation("next")>>
             ELSE IF raw = "heat" \/ raw = "H." THEN <<Special("heat")>>
             ELSE IF raw = "heatSmash" \/ raw = "HS." THEN <<Special("heatSmash")>>
             ELSE IF raw = "rage" \/ raw = "R." THEN <<Special("rage")>>
             ELSE IF raw \in DIRECTION_TOKENS THEN <<Direction(raw)>>
             ELSE IF raw \in BUTTON_TOKENS THEN <<Button(raw)>>
             ELSE <<>>
       IN item \o parseTokens(Tail(tokens))

\* The clipboard text is a sequence of one-character strings.  Spellings
\* holds the characters of every string value the copied tokens carry.
CodecChars == {"a", " ", "\"", "\\"}

Spellings ==
  {<<"f">>, <<"d", "f", "h", "o", "l", "d">>, <<"1", "+", "2">>,
   <<"h", "e", "a", "t", "S", "m", "a", "s", "h">>}
    \cup SeqsUpTo(CodecChars, MaxText)

spell(str) == CHOOSE q \in Spellings : join(q) = str

\* String.prototype.replace with a global one-character pattern
RECURSIVE replaceAll(_, _, _)
replaceAll(q, c, r) ==
  IF q = <<>> THEN <<>>
  ELSE (IF Head(q) = c THEN r ELSE <<Head(q)>>) \o replaceAll(Tail(q), c, r)

\* The text of one item in commandsToCopyText.
itemText(item) ==
  CASE item.type \in {"direction", "button", "special"} -> spell(item.value)
    [] item.type = "notation" ->
         IF item.value = "bracketl" THEN <<"[">>
         ELSE IF item.value = "bracketr" THEN <<"]">>
         ELSE IF item.value = "parenl" THEN <<"(">>
         ELSE IF item.value = "parenr" THEN <<")">>
         ELSE IF item.value = "tilde" THEN <<"~">>
         ELSE <<"n", "e", "x", "t">>
    [] item.type = "text" ->
         LET escaped == replaceAll(replaceAll(spell(item.value), "\\",
                                              <<"\\", "\\">>),
                                   "\"", <<"\\", "\"">>)
         IN <<"\"">> \o escaped \o <<"\"">>
    [] OTHER -> <<>>

\* Array.prototype.join(' ') over the non-empty texts
RECURSIVE joinWords(_)
joinWords(texts) ==
  IF texts = <<>> THEN <<>>
  ELSE IF Len(texts) = 1 THEN Head(texts)
  ELSE Head(texts) \o <<" ">> \o joinWords(Tail(texts))

commandsToCopyText(cmds) ==
  joinWords(SelectSeq([i \in DOMAIN cmds |-> itemText(cmds[i])],
                      LAMBDA text : text # <<>>))

\* tokenize: the scan from index i of the trimmed text t.  readQuoted and
\* readBare return what they read and the index after it.
RECURSIVE readQuoted(_, _, _)
readQuoted(t, i, value) ==
  IF i > Len(t) THEN [value |-> value, next |-> i]
  ELSE IF t[i] = "\\" /\ i < Len(t) /\ t[i + 1] = "\""
       THEN readQuoted(t, i + 2, Append(value, "\""))
  ELSE IF t[i] = "\\" /\ i < Len(t) /\ t[i + 1] = "\\"
       THEN readQuoted(t, i + 2, Append(value, "\\"))
  ELSE IF t[i] = "\"" THEN [value |-> value, next |-> i + 1]
  ELSE readQuoted(t, i + 1, Append(value, t[i]))

RECURSIVE readBare(_, _, _)
readBare(t, i, raw) ==
  IF i <= Len(t) /\ t[i] # " " /\ t[i] # "\""
  THEN readBare(t, i + 1, Append(raw, t[i]))
  ELSE [value |-> raw, next |-> i]

RECURSIVE tokenizeFrom(_, _)
tokenizeFrom(t, i) ==
  IF i > Len(t) THEN <<>>
  ELSE IF t[i] = " " THEN tokenizeFrom(t, i + 1)
  ELSE IF t[i] = "\""
       THEN LET r == readQuoted(t, i + 1, <<>>)
            IN <<Quoted(join(r.value))>> \o tokenizeFrom(t, r.next)
  ELSE LET r == readBare(t, i, <<>>)
       IN (IF r.value # <<>> THEN <<Word(join(r.value))>> ELSE <<>>)
            \o tokenizeFrom(t, r.next)

tokenize(str) == tokenizeFrom(trim(str), 1)

parsePasteText(text) == parseTokens(tokenize(text))

(* ------------------------------- inputs -------------------------------- *)

\* What the clipboard holds when a pending read resolves, tokenized.
ClipboardTokens ==
  {<<>>, <<Word("f")>>, <<Word("f"), Word("zz")>>, <<Quoted("a")>>}

\* Keys of the sampled-insert group that are pressed.
NotationKeys == {"bracketl"}

\* Mapped keys that are held and released.
SampledKeys == {"Numpad4"}

\* Frames a direction is counted for.
MaxFrames == 11

Positions == 0..MaxLen

SelectionInputs ==
  {Null} \cup {Some(Range(a, b)) : a \in Positions, b \in Positions}

(* ------------------------------- actions ------------------------------- *)

\* The record of an event: its name, what it met, whether it performed the
\* Push step (pushHistory(true)), and how far it carries the chain
\* "effective undo (1), then a Push (2), then redo (3)".
Op(name, info, pushed) ==
  [op |-> name, info |-> info, pushed |-> pushed,
   chain |-> IF name = "undo" /\ info = "acted" THEN 1
             ELSE IF lastOp.chain = 1 /\ pushed THEN 2
             ELSE IF lastOp.chain = 2 /\ name = "redo" THEN 3
             ELSE 0]

Count ==
  /\ steps < MaxSteps
  /\ steps' = steps + 1

\* The handler's result s is committed; op records the event.
Apply(s, op) ==
  /\ Install(Render(s))
  /\ lastOp' = op
  /\ UNCHANGED keyMapping

Commit(s, op) ==
  /\ Len(s.commands) <= MaxLen
  /\ Apply(s, op)

\* One event of the session.
Event(s, op) ==
  /\ Count
  /\ Commit(s, op)
  /\ UNCHANGED <<pendingReads, rt, run, heatPress>>

\* What the event meets: no selection, a selection within the tokens, or one
\* that reaches outside them.
selTag ==
  IF ~hasSel(selectionRef) THEN "nosel"
  ELSE IF Val(selectionRef).start >= 0 /\ Val(selectionRef).end <= Len(commands)
       THEN "sel" ELSE "wild"

Undo ==
  /\ ~isTextMode
  /\ Event(undo(Session),
           Op("undo", IF historyIndex + 1 < scene THEN "acted" ELSE "boundary",
              FALSE))

Redo ==
  /\ ~isTextMode
  /\ Event(redo(Session),
           Op("redo",
              IF historyIndex + 1 < scene
              THEN IF historyIndex + 2 < Len(history) THEN "acted" ELSE "boundary"
              ELSE IF historyIndex + 1 < Len(history) THEN "acted" ELSE "boundary",
              FALSE))

KeySelectAll ==
  /\ ~isTextMode
  /\ Event(keySelectAll(Session), Op("selectAllKey", "", FALSE))

KeyCut ==
  /\ ~isTextMode
  /\ Event(cutToClipboard(Session),
           Op("cut", selTag, hasSel(selectionRef) /\ Len(commandsRef) > 0))

KeyNotation ==
  /\ ~isTextMode
  /\ \E value \in NotationKeys :
       Event(keyNotation(Session, value),
             Op("notation", selTag, historyFlag = 1))

KeyLinebreak ==
  /\ ~isTextMode
  /\ Event(keyLinebreak(Session), Op("linebreak", selTag, TRUE))

KeyBackspace ==
  /\ ~isTextMode
  /\ Event(keyBackspace(Session), Op("backspace", selTag, TRUE))

KeyDelete ==
  /\ ~isTextMode
  /\ Event(keyDelete(Session), Op("delete", selTag, TRUE))

KeyArrowLeft ==
  /\ ~isTextMode
  /\ \E shiftKey \in BOOLEAN :
       Event(keyArrowLeft(Session, shiftKey), Op("arrow", "", FALSE))

KeyArrowRight ==
  /\ ~isTextMode
  /\ \E shiftKey \in BOOLEAN :
       Event(keyArrowRight(Session, shiftKey), Op("arrow", "", FALSE))

KeyArrowUp ==
  /\ ~isTextMode
  /\ \E shiftKey \in BOOLEAN, j \in -1..Len(commandsRef) :
       Event(keyArrowUp(Session, shiftKey, j), Op("arrow", "", FALSE))

KeyArrowDown ==
  /\ ~isTextMode
  /\ \E shiftKey \in BOOLEAN, j \in -1..Len(commandsRef) :
       Event(keyArrowDown(Session, shiftKey, j), Op("arrow", "", FALSE))

KeyHome ==
  /\ ~isTextMode
  /\ \E shiftKey \in BOOLEAN :
       Event(keyHome(Session, shiftKey), Op("arrow", "", FALSE))

KeyEnd ==
  /\ ~isTextMode
  /\ \E shiftKey \in BOOLEAN :
       Event(keyEnd(Session, shiftKey), Op("arrow", "", FALSE))

\* keydown of a mapped key: pressedKeys.current.add(code)
KeyPress ==
  /\ ~isTextMode
  /\ \E code \in SampledKeys \ pressedKeys :
       Event([Session EXCEPT !.pressedKeys = @ \cup {code}], Op("press", "", FALSE))

\* handleKeyUp
KeyRelease ==
  \E code \in pressedKeys :
    Event([Session EXCEPT !.pressedKeys = @ \ {code}], Op("release", "", FALSE))

\* The run of consecutive frames that decode one non-neutral direction, with
\* the tap and hold tokens of that direction the frames have emitted.
noRun == [dir |-> "null", ticks |-> 0, taps |-> 0, holds |-> 0]

occurrences(toAdd, tok) == Cardinality({i \in DOMAIN toAdd : toAdd[i] = tok})

nextRun ==
  LET dir == findDirectionFromKeys(pressedKeys, keyMapping)
      emitted == sampleDirection(Session, dir).toAdd
      taps == occurrences(emitted, Direction(dir))
      holds == occurrences(emitted, Direction(toHoldNotation(dir)))
  IN IF isTextMode \/ dir = "null" THEN noRun
     ELSE IF dir = run.dir
          THEN [dir |-> dir, ticks |-> run.ticks + 1,
                taps |-> run.taps + taps, holds |-> run.holds + holds]
          ELSE [dir |-> dir, ticks |-> 1, taps |-> taps, holds |-> holds]

\* The last frame whose special token was heat: when it ran, and the cursor
\* and the tokens it left.  A frame that emits heatSmash ends the record.
noPress == [at |-> 0, pos |-> 0, tokens |-> <<>>]

\* No content edit and no run of sampled inserts is being followed.
noGroup ==
  [phase |-> "none", fromEdit |-> FALSE, flagged |-> FALSE, appended |-> FALSE,
   beforeEdit |-> <<>>, afterEdit |-> <<>>, base |-> initialHistoryState,
   saved |-> FALSE, count |-> 0, last |-> <<>>]

nextHeatPress ==
  LET emitted == sampleSpecial(Session,
                               findSpecialFromKeys(pressedKeys, keyMapping)).toAdd
  IN IF isTextMode \/ emitted = <<>> THEN heatPress
     ELSE IF emitted = <<Special("heat")>>
          THEN [at |-> now, pos |-> cursorIndex', tokens |-> commands']
          ELSE noPress

\* What a frame is recorded as: idle when it changes neither tokens nor
\* scene, else what selection it met; and whether it performed the Push step.
TickOp(s) ==
  Op("tick",
     IF s.commands # commands \/ s.scene # scene THEN selTag ELSE "idle",
     historyFlag = 1 /\ s.historyFlag = 0)

Tick ==
  \E eager \in BOOLEAN :
    LET s == tick(Session, eager)
    IN /\ s.framesHeld <= MaxFrames
       /\ Count
       /\ Commit(s, TickOp(s))
       /\ run' = nextRun
       /\ heatPress' = nextHeatPress
       /\ UNCHANGED <<pendingReads, rt>>

\* Ctrl+V (outside text mode) and pasteFromClipboard (in any mode): the read
\* is issued.
PasteIssue ==
  /\ Count
  /\ Len(pendingReads) < MaxPending
  /\ pendingReads' = Append(pendingReads, [cursor |-> cursorIndexRef,
                                            selection |-> selectionRef])
  /\ lastOp' = Op("pasteIssue", "", FALSE)
  /\ UNCHANGED <<commands, cursorIndex, selection, isTextMode, textEditIndex,
                 currentText, commandsRef, cursorIndexRef, selectionRef,
                 textEditIndexRef, pressedKeys, history, historyIndex,
                 historyFlag, scene, prevDirection, framesHeld, prevButton,
                 prevSpecial, didReplaceHeatWithSmash, lastHeatPressTime, now,
                 keyMapping, rt, run, heatPress>>

RemoveAt(q, i) == SubSeq(q, 1, i - 1) \o SubSeq(q, i + 1, Len(q))

\* The promise of a pending read resolves with the clipboard's text.
PasteResolve ==
  \E i \in DOMAIN pendingReads, text \in ClipboardTokens :
    LET toInsert == parseTokens(text)
        s == pasteResolved(Session, toInsert)
        issued == pendingReads[i]
    IN /\ Count
       /\ pendingReads' = RemoveAt(pendingReads, i)
       /\ Commit(s, Op("pasteResolve",
                       IF toInsert = <<>> THEN "empty"
                       ELSE IF issued.cursor # cursorIndexRef
                               \/ issued.selection # selectionRef
                            THEN "moved" ELSE "same",
                       toInsert # <<>>))
       /\ UNCHANGED <<rt, run, heatPress>>

\* The promise rejects (clipboard unavailable or permission denied).
PasteReject ==
  \E i \in DOMAIN pendingReads :
    /\ Count
    /\ pendingReads' = RemoveAt(pendingReads, i)
    /\ lastOp' = Op("pasteReject", "", FALSE)
    /\ UNCHANGED <<commands, cursorIndex, selection, isTextMode, textEditIndex,
                   currentText, commandsRef, cursorIndexRef, selectionRef,
                   textEditIndexRef, pressedKeys, history, historyIndex,
                   historyFlag, scene, prevDirection, framesHeld, prevButton,
                   prevSpecial, didReplaceHeatWithSmash, lastHeatPressTime, now,
                   keyMapping, rt, run, heatPress>>

\* The hook's API, as the UI calls it.
ApiSetCursorIndex ==
  \E value \in 0..(MaxLen + 1) :
    Event(setCursorIndex(Session, value), Op("setCursor", "", FALSE))

ApiSetSelection ==
  \E value \in SelectionInputs :
    Event(setSelectionWrapped(Session, value), Op("setSelection", "", FALSE))

ApiSelectAll == Event(selectAll(Session), Op("selectAll", "", FALSE))

ApiClearSelectionAndMoveCursorToEnd ==
  Event(clearSelectionAndMoveCursorToEnd(Session), Op("clearSelection", "", FALSE))

ApiClearCommands ==
  Event(clearCommands(Session), Op("clear", selTag, TRUE))

ApiRemoveLastCommand ==
  Event(removeLastCommand(Session), Op("removeLast", "", FALSE))

\* Enter outside text mode (pressedKeys.add, then toggleTextMode), the text
\* button outside text mode, and Enter in text mode outside the input element.
ToggleTextMode ==
  Event(toggleTextMode(Session),
        Op("toggleText", IF isTextMode THEN "close" ELSE "open", FALSE))

ApiUpdateText ==
  /\ isTextMode
  /\ \E text \in Drafts :
       Event(updateText(Session, text), Op("updateText", "", FALSE))

KeyTextBackspace ==
  /\ isTextMode
  /\ Event(textBackspace(Session), Op("textBackspace", "", FALSE))

KeyTextEscape ==
  /\ isTextMode
  /\ Event(textEscape(Session), Op("textEscape", "", FALSE))

\* Keys pressed in text mode that are none of Enter, Backspace and Escape.
OtherKeys == {"Delete", "BracketLeft"}

KeyDownInTextMode ==
  /\ isTextMode
  /\ \E code \in OtherKeys :
       Event(handleKeyDown(Session, code), Op("keyInText", code, FALSE))

\* onBlur of the input, the text button in text mode, a click elsewhere
\* while a token is being edited: finishTextInput(currentText).
ApiFinishTextInput ==
  /\ isTextMode \/ textEditIndex # Null
  /\ Event(finishTextInput(Session, currentText),
           Op("finishText", IF textEditIndexRef # Null THEN "edit" ELSE "new",
              TRUE))

ApiStartTextEdit ==
  /\ ~isTextMode
  /\ \E index \in 0..(Len(commandsRef) - 1) :
       Event(startTextEdit(Session, index), Op("startTextEdit", "", FALSE))

(* ---------------------------- specification ---------------------------- *)

Init ==
  /\ commands = <<>>
  /\ cursorIndex = 0
  /\ selection = Null
  /\ isTextMode = FALSE
  /\ textEditIndex = Null
  /\ currentText = <<>>
  /\ commandsRef = <<>>
  /\ cursorIndexRef = 0
  /\ selectionRef = Null
  /\ textEditIndexRef = Null
  /\ pressedKeys = {}
  /\ history = <<initialHistoryState>>
  /\ historyIndex = 0
  /\ historyFlag = 0
  /\ scene = 1
  /\ prevDirection = "null"
  /\ framesHeld = 0
  /\ prevButton = "null"
  /\ prevSpecial = "null"
  /\ didReplaceHeatWithSmash = FALSE
  /\ lastHeatPressTime = 0
  /\ now = 1000
  /\ keyMapping = defaultKeyMapping
  /\ pendingReads = <<>>
  /\ lastOp = [op |-> "init", info |-> "", pushed |-> FALSE, chain |-> 0]
  /\ steps = 0
  /\ rt = [phase |-> "edit", trace |-> <<>>, undos |-> 0, redos |-> 0,
           copied |-> <<>>, source |-> <<>>, group |-> noGroup,
           anchor |-> Null, turns |-> 0]
  /\ run = noRun
  /\ heatPress = noPress

Next ==
  \/ Undo
  \/ Redo
  \/ KeySelectAll
  \/ KeyCut
  \/ KeyNotation
  \/ KeyLinebreak
  \/ KeyBackspace
  \/ KeyDelete
  \/ KeyArrowLeft
  \/ KeyArrowRight
  \/ KeyArrowUp
  \/ KeyArrowDown
  \/ KeyHome
  \/ KeyEnd
  \/ KeyPress
  \/ KeyRelease
  \/ Tick
  \/ PasteIssue
  \/ PasteResolve
  \/ PasteReject
  \/ ApiSetCursorIndex
  \/ ApiSetSelection
  \/ ApiSelectAll
  \/ ApiClearSelectionAndMoveCursorToEnd
  \/ ApiClearCommands
  \/ ApiRemoveLastCommand
  \/ ToggleTextMode
  \/ ApiUpdateText
  \/ KeyTextBackspace
  \/ KeyTextEscape
  \/ KeyDownInTextMode
  \/ ApiFinishTextInput
  \/ ApiStartTextEdit

Spec == Init /\ [][Next]_vars

(* ----------------------- the round-trip scenario ---------------------- *)

\* Content edits E1..En from the initial session (line break, delete, cut,
\* paste, clear, text commit), then undos, then redos.  rt.trace[i] is the
\* token sequence after Ei.  n stays below the capacity.
MaxEdits == HISTORY_MAX - 1

\* A step of the scenario that is no content edit by itself.
Step(s, op) ==
  /\ Commit(s, op)
  /\ UNCHANGED <<steps, run, heatPress>>

\* A content edit: the token sequence it leaves is recorded.
Edit(s, op) ==
  /\ rt.phase = "edit"
  /\ Len(rt.trace) < MaxEdits
  /\ Step(s, op)
  /\ rt' = [rt EXCEPT !.trace = Append(@, commands')]

EditLinebreak ==
  /\ ~isTextMode
  /\ Edit(keyLinebreak(Session), Op("linebreak", selTag, TRUE))
  /\ UNCHANGED pendingReads

EditBackspace ==
  /\ ~isTextMode
  /\ Edit(keyBackspace(Session), Op("backspace", selTag, TRUE))
  /\ UNCHANGED pendingReads

EditDelete ==
  /\ ~isTextMode
  /\ Edit(keyDelete(Session), Op("delete", selTag, TRUE))
  /\ UNCHANGED pendingReads

\* Ctrl+A and the Left arrow between edits give cut, Backspace and Delete
\* a selection and a cursor inside the tokens.
EditSelectAll ==
  /\ rt.phase = "edit"
  /\ ~isTextMode
  /\ Step(keySelectAll(Session), Op("selectAllKey", "", FALSE))
  /\ UNCHANGED <<pendingReads, rt>>

EditArrowLeft ==
  /\ rt.phase = "edit"
  /\ ~isTextMode
  /\ \E shiftKey \in BOOLEAN :
       Step(keyArrowLeft(Session, shiftKey), Op("arrow", "", FALSE))
  /\ UNCHANGED <<pendingReads, rt>>

EditCut ==
  /\ ~isTextMode
  /\ hasSel(selectionRef)
  /\ Len(commandsRef) > 0
  /\ Edit(cutToClipboard(Session), Op("cut", selTag, TRUE))
  /\ UNCHANGED pendingReads

EditClear ==
  /\ Edit(clearCommands(Session), Op("clear", selTag, TRUE))
  /\ UNCHANGED pendingReads

EditPasteIssue ==
  /\ rt.phase = "edit"
  /\ ~isTextMode
  /\ Len(pendingReads) < MaxPending
  /\ pendingReads' = Append(pendingReads, [cursor |-> cursorIndexRef,
                                            selection |-> selectionRef])
  /\ Step(Session, Op("pasteIssue", "", FALSE))
  /\ UNCHANGED rt

EditPasteResolve ==
  \E i \in DOMAIN pendingReads, text \in ClipboardTokens :
    /\ parseTokens(text) # <<>>
    /\ Edit(pasteResolved(Session, parseTokens(text)),
            Op("pasteResolve", "", TRUE))
    /\ pendingReads' = RemoveAt(pendingReads, i)

\* The text commit, in its three events: the mode is opened, a draft is
\* typed, and the mode is ended by confirmation or by the mode toggle.
EditOpenText ==
  /\ rt.phase = "edit"
  /\ ~isTextMode
  /\ Step(toggleTextMode(Session), Op("toggleText", "open", FALSE))
  /\ UNCHANGED <<pendingReads, rt>>

EditTypeText ==
  /\ rt.phase = "edit"
  /\ isTextMode
  /\ \E text \in Drafts :
       /\ trim(text) # <<>>
       /\ text # currentText
       /\ Step(updateText(Session, text), Op("updateText", "", FALSE))
  /\ UNCHANGED <<pendingReads, rt>>

EditConfirmText ==
  /\ isTextMode
  /\ trim(currentText) # <<>>
  /\ Edit(finishTextInput(Session, currentText), Op("finishText", "new", TRUE))
  /\ UNCHANGED pendingReads

EditToggleText ==
  /\ isTextMode
  /\ trim(currentText) # <<>>
  /\ Edit(toggleTextMode(Session), Op("toggleText", "close", FALSE))
  /\ UNCHANGED pendingReads

UndoAll ==
  /\ ~isTextMode
  /\ rt.trace # <<>>
  /\ rt.phase = "edit" \/ (rt.phase = "undo" /\ rt.undos < Len(rt.trace))
  /\ Step(undo(Session),
          Op("undo", IF historyIndex + 1 < scene THEN "acted" ELSE "boundary",
             FALSE))
  /\ rt' = [rt EXCEPT !.phase = "undo", !.undos = @ + 1]
  /\ UNCHANGED pendingReads

RedoAll ==
  /\ \/ rt.phase = "undo" /\ rt.undos = Len(rt.trace)
     \/ rt.phase = "redo" /\ rt.redos < Len(rt.trace)
  /\ Step(redo(Session), Op("redo", "", FALSE))
  /\ rt' = [rt EXCEPT !.phase = "redo", !.redos = @ + 1]
  /\ UNCHANGED pendingReads

NextRoundTrip ==
  \/ EditLinebreak
  \/ EditBackspace
  \/ EditDelete
  \/ EditSelectAll
  \/ EditArrowLeft
  \/ EditCut
  \/ EditClear
  \/ EditPasteIssue
  \/ EditPasteResolve
  \/ EditOpenText
  \/ EditTypeText
  \/ EditConfirmText
  \/ EditToggleText
  \/ UndoAll
  \/ RedoAll

SpecRoundTrip == Init /\ [][NextRoundTrip]_vars

(* ------------------------- the sampler scenario ------------------------ *)

\* Frames run between the events, as requestAnimationFrame delivers them;
\* the events are presses and releases of mapped keys and the buffer
\* operations that interleave with a held key.

\* Mapped keys that are held in the scenario: forward and button 1.
MappedKeys == {"KeyD", "Numpad4"}

\* The heat key.
HeatKeys == {"Numpad7"}

\* Longest token sequence the frames build.
MaxSampled == 3

\* keydown of one of keys, outside text mode: pressedKeys.current.add(code)
Hold(keys) ==
  /\ ~isTextMode
  /\ \E code \in keys \ pressedKeys :
       Event([Session EXCEPT !.pressedKeys = @ \cup {code}], Op("press", code, FALSE))

HoldKey == Hold(MappedKeys)

\* One frame of the sampler.
Frame ==
  \E eager \in BOOLEAN :
    LET s == tick(Session, eager)
    IN /\ s.framesHeld <= MaxFrames
       /\ nextRun.ticks <= MaxFrames
       /\ Len(s.commands) <= MaxSampled
       /\ Apply(s, TickOp(s))
       /\ run' = nextRun
       /\ heatPress' = nextHeatPress
       /\ UNCHANGED <<steps, pendingReads, rt>>

NextSampler ==
  \/ Frame
  \/ HoldKey
  \/ KeyRelease
  \/ KeyNotation
  \/ KeyArrowLeft
  \/ ApiClearCommands

SpecSampler == Init /\ [][NextSampler]_vars

(* -------------------------- the heat scenario -------------------------- *)

\* The heat key is pressed and released between frames while the clock
\* runs; tokens are typed, the cursor moves and a selection is set between
\* the presses.

\* Date.now() advances by ClockStep between two events, up to MaxClock.
ClockStep == 200
MaxClock == 1400

Elapse ==
  /\ now + ClockStep <= MaxClock
  /\ Apply([Session EXCEPT !.now = @ + ClockStep], Op("elapse", "", FALSE))
  /\ UNCHANGED <<steps, pendingReads, rt, run, heatPress>>

\* keydown of the heat key
PressHeat == Hold(HeatKeys)

\* keyup of the heat key
ReleaseHeat ==
  /\ \E code \in HeatKeys \cap pressedKeys :
       Apply([Session EXCEPT !.pressedKeys = @ \ {code}], Op("release", code, FALSE))
  /\ UNCHANGED <<steps, pendingReads, rt, run, heatPress>>

NextHeat ==
  \/ Frame
  \/ Elapse
  \/ PressHeat
  \/ ReleaseHeat
  \/ KeyNotation
  \/ KeyArrowLeft
  \/ ApiSetSelection

SpecHeat == Init /\ [][NextHeat]_vars

(* ------------------------- the decode scenario ------------------------- *)

\* The mapping is configured with or without a dedicated key for up-forward,
\* direction keys are pressed and released, and frames decode them.

\* defaultKeyMapping with directions.uf bound to a key of its own.
dedicatedKeyMapping ==
  [defaultKeyMapping EXCEPT
     !.directions = [g \in DOMAIN @ \cup {"uf"} |->
                       IF g = "uf" THEN {"KeyE"} ELSE @[g]]]

Mappings == {defaultKeyMapping, dedicatedKeyMapping}

DecodeKeys == {"KeyW", "KeyD", "KeyE"}

\* The customMapping prop changes: keyMapping.current is replaced.
Remap ==
  \E mapping \in Mappings \ {keyMapping} :
    /\ Install(Session)
    /\ keyMapping' = mapping
    /\ lastOp' = Op("remap", "", FALSE)
    /\ UNCHANGED <<steps, pendingReads, rt, run, heatPress>>

HoldDirection == Hold(DecodeKeys)

NextDecode ==
  \/ Frame
  \/ Remap
  \/ HoldDirection
  \/ KeyRelease

SpecDecode == Init /\ [][NextDecode]_vars

(* ------------------------ the clipboard scenario ----------------------- *)

\* Tokens are added, a range of them is copied, and the copied text is
\* pasted back.  rt.copied is the text the copy wrote to the clipboard and
\* rt.source the tokens it was made from.

\* The tokens addCommand is called with: a direction, a hold direction, a
\* button, a special, every structural mark, and Text tokens over CodecChars.
CodecTokens ==
  {Direction("f"), Direction("dfhold"), Button("1+2"), Special("heatSmash")}
    \cup {Notation(v) : v \in {"bracketl", "bracketr", "parenl", "parenr",
                               "tilde", "next", "linebreak"}}
    \cup {Text(join(q)) : q \in SeqsUpTo(CodecChars, MaxText)}

ApiAddCommand ==
  /\ rt.phase = "edit"
  /\ \E item \in CodecTokens :
       Step(insertCommandAtCursor(Session, item), Op("add", selTag, FALSE))
  /\ UNCHANGED <<pendingReads, rt>>

\* Ctrl+C, copyToClipboard
KeyCopy ==
  /\ rt.phase = "edit"
  /\ ~isTextMode
  /\ Len(commandsRef) > 0
  /\ LET toCopy == IF hasSel(selectionRef)
                   THEN slice(commandsRef, Val(selectionRef).start,
                              Val(selectionRef).end)
                   ELSE commandsRef
         text == commandsToCopyText(toCopy)
     IN /\ text # <<>>
        /\ rt' = [rt EXCEPT !.phase = "copied", !.copied = text,
                            !.source = toCopy]
  /\ Step(Session, Op("copy", selTag, FALSE))
  /\ UNCHANGED pendingReads

\* Ctrl+V after the copy, and the read resolving to the copied text.
PasteIssueCopied ==
  /\ rt.phase = "copied"
  /\ Len(pendingReads) < MaxPending
  /\ pendingReads' = Append(pendingReads, [cursor |-> cursorIndexRef,
                                            selection |-> selectionRef])
  /\ Step(Session, Op("pasteIssue", "", FALSE))
  /\ UNCHANGED rt

PasteCopied ==
  /\ rt.phase = "copied"
  /\ \E i \in DOMAIN pendingReads :
       /\ Step(pasteResolved(Session, parsePasteText(rt.copied)),
               Op("pasteCopied", selTag, TRUE))
       /\ pendingReads' = RemoveAt(pendingReads, i)
  /\ rt' = [rt EXCEPT !.phase = "pasted"]

NextCodec ==
  \/ ApiAddCommand
  \/ EditSelectAll
  \/ EditArrowLeft
  \/ KeyCopy
  \/ PasteIssueCopied
  \/ PasteCopied

SpecCodec == Init /\ [][NextCodec]_vars

(* ------------------------- the grouping scenario ----------------------- *)

\* Content edits, sampled inserts, cursor moves, undo and redo from the
\* initial session.  rt.group follows the last content edit and the run of
\* consecutive sampled inserts behind it: the tokens before and after the
\* edit, whether the edit's push appended a snapshot, the state that was live
\* when the run began, whether the flag was set then, the number of inserts
\* of the run and the tokens after the last of them.

\* A content edit has changed the tokens.
edited ==
  IF commands' = commands THEN noGroup
  ELSE [noGroup EXCEPT !.phase = "edited",
                       !.beforeEdit = commands,
                       !.afterEdit = commands',
                       !.appended = ~(historyIndex = 0 /\ scene = 1)]

\* A sampled insert has committed tokens: the run begins or goes on.
grown ==
  LET g == rt.group
  IN IF g.phase = "run"
     THEN [g EXCEPT !.count = @ + 1, !.last = commands']
     ELSE [g EXCEPT !.phase = "run",
                    !.fromEdit = (g.phase = "edited"),
                    !.flagged = (historyFlag = 1),
                    !.base = [commands |-> commands, cursorIndex |-> cursorIndex,
                              selection |-> selection],
                    !.count = 1,
                    !.last = commands']

\* One event of the scenario; g is what rt.group becomes.
Grouped(s, op, g) ==
  /\ ~isTextMode
  /\ Count
  /\ Commit(s, op)
  /\ rt' = [rt EXCEPT !.group = g]
  /\ UNCHANGED <<pendingReads, run, heatPress>>

GroupNotation ==
  \E value \in NotationKeys :
    Grouped(keyNotation(Session, value), Op("notation", selTag, historyFlag = 1),
            grown)

GroupPress ==
  \E code \in SampledKeys \ pressedKeys :
    Grouped([Session EXCEPT !.pressedKeys = @ \cup {code}], Op("press", "", FALSE),
            rt.group)

GroupRelease ==
  \E code \in pressedKeys :
    Grouped([Session EXCEPT !.pressedKeys = @ \ {code}], Op("release", "", FALSE),
            rt.group)

GroupFrame ==
  \E eager \in BOOLEAN :
    LET s == tick(Session, eager)
    IN /\ s.framesHeld <= MaxFrames
       /\ ~isTextMode
       /\ Count
       /\ Commit(s, TickOp(s))
       /\ rt' = [rt EXCEPT !.group = IF commands' # commands THEN grown ELSE @]
       /\ run' = nextRun
       /\ heatPress' = nextHeatPress
       /\ UNCHANGED pendingReads

GroupLinebreak ==
  Grouped(keyLinebreak(Session), Op("linebreak", selTag, TRUE), edited)

GroupBackspace ==
  Grouped(keyBackspace(Session), Op("backspace", selTag, TRUE), edited)

GroupDelete ==
  Grouped(keyDelete(Session), Op("delete", selTag, TRUE), edited)

GroupArrowLeft ==
  \E shiftKey \in BOOLEAN :
    Grouped(keyArrowLeft(Session, shiftKey), Op("arrow", "", FALSE), noGroup)

GroupSelectAll ==
  Grouped(keySelectAll(Session), Op("selectAllKey", "", FALSE), noGroup)

\* setSelection as the UI calls it.
GroupSetSelection ==
  \E value \in SelectionInputs :
    Grouped(setSelectionWrapped(Session, value), Op("setSelection", "", FALSE),
            noGroup)

\* Undo behind a run: whether log[idx] held the state the run began in.
GroupUndo ==
  Grouped(undo(Session),
          Op("undo", IF historyIndex + 1 < scene THEN "acted" ELSE "boundary",
             FALSE),
          IF rt.group.phase = "run"
          THEN [rt.group EXCEPT !.phase = "undone",
                                !.saved = (history[historyIndex + 1] = rt.group.base)]
          ELSE noGroup)

GroupRedo ==
  Grouped(redo(Session), Op("redo", "", FALSE),
          IF rt.group.phase = "undone"
          THEN [rt.group EXCEPT !.phase = "redone"]
          ELSE noGroup)

NextGroup ==
  \/ GroupNotation
  \/ GroupPress
  \/ GroupRelease
  \/ GroupFrame
  \/ GroupLinebreak
  \/ GroupBackspace
  \/ GroupDelete
  \/ GroupArrowLeft
  \/ GroupSelectAll
  \/ GroupSetSelection
  \/ GroupUndo
  \/ GroupRedo

SpecGroup == Init /\ [][NextGroup]_vars

(* ------------------------- the eviction scenario ----------------------- *)

\* Line breaks and Backspace push until the log is full and its oldest
\* entries are evicted; undo then goes down to idx = 0.
EvictLinebreak ==
  /\ ~isTextMode
  /\ Step(keyLinebreak(Session), Op("linebreak", selTag, TRUE))
  /\ UNCHANGED <<pendingReads, rt>>

EvictBackspace ==
  /\ ~isTextMode
  /\ Step(keyBackspace(Session), Op("backspace", selTag, TRUE))
  /\ UNCHANGED <<pendingReads, rt>>

EvictUndo ==
  /\ ~isTextMode
  /\ Step(undo(Session),
          Op("undo", IF historyIndex + 1 < scene THEN "acted" ELSE "boundary",
             FALSE))
  /\ UNCHANGED <<pendingReads, rt>>

NextEvict ==
  \/ EvictLinebreak
  \/ EvictBackspace
  \/ EvictUndo

SpecEvict == Init /\ [][NextEvict]_vars

(* -------------------------- the batch scenario ------------------------- *)

\* Two inserts run in one turn of the event loop, with no commit and so no
\* mirror effect between them: two key inserts, or a frame of the sampler and
\* a key insert.  rt.source is what the two put in, in the order they ran.
BatchKeys == {"bracketl", "parenl"}

\* One turn of the scenario.
Turn(s, op) ==
  /\ Count
  /\ Commit(s, op)
  /\ UNCHANGED <<run, heatPress>>

BatchKey ==
  /\ ~isTextMode
  /\ \E value \in BatchKeys :
       Turn(keyNotation(Session, value), Op("notation", selTag, historyFlag = 1))
  /\ UNCHANGED <<pendingReads, rt>>

BatchArrowLeft ==
  /\ ~isTextMode
  /\ \E shiftKey \in BOOLEAN :
       Turn(keyArrowLeft(Session, shiftKey), Op("arrow", "", FALSE))
  /\ UNCHANGED <<pendingReads, rt>>

BatchPress ==
  /\ ~isTextMode
  /\ \E code \in SampledKeys \ pressedKeys :
       Turn([Session EXCEPT !.pressedKeys = @ \cup {code}], Op("press", "", FALSE))
  /\ UNCHANGED <<pendingReads, rt>>

BatchRelease ==
  /\ \E code \in pressedKeys :
       Turn([Session EXCEPT !.pressedKeys = @ \ {code}], Op("release", "", FALSE))
  /\ UNCHANGED <<pendingReads, rt>>

\* An idle frame, so that a released key can be sampled again.
BatchFrame ==
  /\ ~isTextMode
  /\ \E eager \in BOOLEAN :
       LET s == tick(Session, eager)
       IN /\ s.commands = commands
          /\ Turn(s, Op("tick", "idle", FALSE))
  /\ UNCHANGED <<pendingReads, rt>>

BatchKeyKey ==
  /\ ~isTextMode
  /\ \E first \in BatchKeys, second \in BatchKeys :
       /\ Turn(keyNotation(keyNotation(Session, first), second),
               Op("batch", "keyKey", historyFlag = 1))
       /\ rt' = [rt EXCEPT !.phase = "batch",
                           !.source = <<Notation(first), Notation(second)>>]
  /\ UNCHANGED pendingReads

BatchFrameKey ==
  /\ ~isTextMode
  /\ \E eager \in BOOLEAN, second \in BatchKeys :
       LET s == tick(Session, eager)
       IN /\ s.commands # commands
          /\ Turn(keyNotation(s, second), Op("batch", "frameKey", historyFlag = 1))
          /\ rt' = [rt EXCEPT !.phase = "batch",
                              !.source = Append(
                                frameTokens(Session,
                                            findDirectionFromKeys(pressedKeys, keyMapping),
                                            findButtonFromKeys(pressedKeys, keyMapping),
                                            findSpecialFromKeys(pressedKeys, keyMapping)),
                                Notation(second))]
  /\ UNCHANGED pendingReads

NextBatch ==
  \/ BatchKey
  \/ BatchArrowLeft
  \/ BatchPress
  \/ BatchRelease
  \/ BatchFrame
  \/ BatchKeyKey
  \/ BatchFrameKey

SpecBatch == Init /\ [][NextBatch]_vars

(* ----------------------- the shift-arrow scenario ---------------------- *)

\* Keys and API calls build a buffer and place the cursor; Shift+Left and
\* Shift+Right then extend a selection.  rt.anchor is the cursor position at
\* which the unbroken run of Shift+Arrow presses began with no selection, or
\* Null outside such a run; rt.turns counts the events.
MaxTurns == 6

Anchored(s, op, a) ==
  /\ ~isTextMode
  /\ rt.turns < MaxTurns
  /\ Step(s, op)
  /\ rt' = [rt EXCEPT !.anchor = a, !.turns = @ + 1]
  /\ UNCHANGED pendingReads

\* The anchor of the run a Shift+Arrow press belongs to.
runAnchor ==
  IF rt.anchor # Null THEN rt.anchor
  ELSE IF selection = Null THEN Some(cursorIndex) ELSE Null

ShiftLeft ==
  Anchored(keyArrowLeft(Session, TRUE), Op("arrow", "shift", FALSE), runAnchor)

ShiftRight ==
  Anchored(keyArrowRight(Session, TRUE), Op("arrow", "shift", FALSE), runAnchor)

PlainLeft ==
  Anchored(keyArrowLeft(Session, FALSE), Op("arrow", "", FALSE), Null)

AnchorKey ==
  \E value \in NotationKeys :
    Anchored(keyNotation(Session, value), Op("notation", selTag, historyFlag = 1),
             Null)

AnchorCut ==
  Anchored(cutToClipboard(Session),
           Op("cut", selTag, hasSel(selectionRef) /\ Len(commandsRef) > 0), Null)

AnchorSetSelection ==
  \E value \in SelectionInputs :
    Anchored(setSelectionWrapped(Session, value), Op("setSelection", "", FALSE),
             Null)

AnchorSetCursorIndex ==
  \E value \in 0..(MaxLen + 1) :
    Anchored(setCursorIndex(Session, value), Op("setCursor", "", FALSE), Null)

NextShift ==
  \/ ShiftLeft
  \/ ShiftRight
  \/ PlainLeft
  \/ AnchorKey
  \/ AnchorCut
  \/ AnchorSetSelection
  \/ AnchorSetCursorIndex

SpecShift == Init /\ [][NextShift]_vars

(* ------------------------ derived diagonals scenario ------------------- *)
\* Mappings with no dedicated diagonal binding: the default one, and the
\* default one after the key mapping page gave the key of "up" to another
\* slot (removeCodeFromMapping leaves directions.u empty).

unboundKeyMapping ==
  [defaultKeyMapping EXCEPT !.directions = [@ EXCEPT !.u = {}]]

DerivedMappings == {defaultKeyMapping, unboundKeyMapping}

DerivedKeys == {"KeyW", "KeyS", "KeyD"}

\* The customMapping prop changes: keyMapping.current is replaced.
RemapDerived ==
  \E mapping \in DerivedMappings \ {keyMapping} :
    /\ Install(Session)
    /\ keyMapping' = mapping
    /\ lastOp' = Op("remap", "", FALSE)
    /\ UNCHANGED <<steps, pendingReads, rt, run, heatPress>>

HoldDerived == Hold(DerivedKeys)

NextDerived ==
  \/ Frame
  \/ RemapDerived
  \/ HoldDerived
  \/ KeyRelease

SpecDerived == Init /\ [][NextDerived]_vars

(* ------------------------------ properties ----------------------------- *)

\* The live buffer state, as a snapshot.
live == [commands |-> commands, cursorIndex |-> cursorIndex, selection |-> selection]

\* The guard of undo's restore, and whether one of redo's two cases applies.
undoActs == historyIndex + 1 < scene
redoActs ==
  IF historyIndex + 1 < scene
  THEN historyIndex + 2 < Len(history)
  ELSE historyIndex + 1 < Len(history)

\* C3: in every reachable state scene > idx.
SceneAboveIndex == scene > historyIndex

\* An effective undo has just left scene at idx + 1, the least the invariant
\* allows.
SceneAboveIndexTight ==
  lastOp.op = "undo" /\ lastOp.info = "acted" /\ scene = historyIndex + 1

\* C6, as stated: an undo invoked where idx + 1 < scene does not hold leaves
\* tokens, cursor, selection, log, idx, scene and flag unchanged.
UndoAtBoundaryChangesNothing ==
  [][(lastOp'.op = "undo" /\ ~undoActs) =>
       UNCHANGED <<commands, cursorIndex, selection, history, historyIndex,
                   scene, historyFlag>>]_vars

\* C6, as the code has it: an undo invoked where idx + 1 < scene does not
\* hold leaves tokens, cursor, selection, idx and scene unchanged; it sets flag,
\* and when idx + 1 = log.length it appends a snapshot of the live state to
\* log, which is otherwise unchanged.
UndoAtBoundaryKeepsBuffer ==
  [][(lastOp'.op = "undo" /\ ~undoActs) =>
       /\ UNCHANGED <<commands, cursorIndex, selection, historyIndex, scene>>
       /\ historyFlag' = 1
       /\ history' = IF historyIndex + 1 = Len(history)
                     THEN Append(history, live)
                     ELSE history]_vars

\* An undo at the boundary has happened in the initial state: flag went from
\* false to true and log grew.
UndoAtBoundaryDone ==
  /\ lastOp.op = "undo"
  /\ lastOp.info = "boundary"
  /\ steps = 1
  /\ historyFlag = 1
  /\ Len(history) = 2

\* C7, as stated: a redo invoked where neither redo case applies leaves
\* tokens, cursor, selection, log, idx, scene and flag unchanged (flag is set
\* only by a redo that restored a snapshot).
RedoAtBoundaryChangesNothing ==
  [][(lastOp'.op = "redo" /\ ~redoActs) =>
       UNCHANGED <<commands, cursorIndex, selection, history, historyIndex,
                   scene, historyFlag>>]_vars

\* C7, as the code has it: a redo invoked where neither redo case applies
\* leaves tokens, cursor, selection, log, idx and scene unchanged, and sets
\* flag like every redo.
RedoAtBoundaryKeepsBuffer ==
  [][(lastOp'.op = "redo" /\ ~redoActs) =>
       /\ UNCHANGED <<commands, cursorIndex, selection, history, historyIndex,
                      scene>>
       /\ historyFlag' = 1]_vars

\* A redo at the tip, after an edit, has happened.
RedoAtBoundaryDone ==
  /\ lastOp.op = "redo"
  /\ lastOp.info = "boundary"
  /\ commands # <<>>
  /\ historyFlag = 1

\* C8: in every reachable state log holds at most HISTORY_MAX snapshots.
LogWithinCapacity == Len(history) <= HISTORY_MAX

\* C4: in every reachable state scene = idx + 1 exactly when the live state
\* (tokens, cursor, selection) equals the snapshot log[idx].
SceneTightIffRestored ==
  (scene = historyIndex + 1) <=> (live = history[historyIndex + 1])

isSuffix(a, b) == Len(a) <= Len(b) /\ a = SubSeq(b, Len(b) - Len(a) + 1, Len(b))

\* C5: when an effective undo is followed by an operation that performs the
\* Push step, log afterwards holds only entries that were at or before idx,
\* then at most the snapshot just pushed, and idx points at the last entry;
\* a redo that follows changes neither tokens, cursor nor selection.
RedoBranchDiscarded ==
  [][/\ (lastOp.chain = 1 /\ lastOp'.chain = 2) =>
          LET kept == SubSeq(history, 1, historyIndex + 1)
          IN /\ history' # <<>>
             /\ isSuffix(history', kept) \/ isSuffix(history', Append(kept, live))
             /\ historyIndex' = Len(history') - 1
     /\ (lastOp.chain = 2 /\ lastOp'.op = "redo") =>
          UNCHANGED <<commands, cursorIndex, selection>>]_vars

\* Undo took effect, an edit pushed, and redo was then invoked.
RedoAfterDiscardDone == lastOp.chain = 3

\* The cursor or selection a paste replaces.
pasteStart == IF hasSel(selection) THEN Val(selection).start ELSE cursorIndex
pasteEnd == IF hasSel(selection) THEN Val(selection).end ELSE cursorIndex

\* C9: when a pending clipboard read resolves with recognised tokens, they
\* replace the selection, or are inserted at the cursor, as these are when the
\* read resolves; the cursor ends just past them and the selection is null.
PasteLandsAtResolution ==
  [][(lastOp'.op = "pasteResolve" /\ lastOp'.info # "empty") =>
       \E text \in ClipboardTokens :
         LET toInsert == parseTokens(text)
         IN /\ toInsert # <<>>
            /\ commands' = splice(commands, pasteStart, pasteEnd, toInsert)
            /\ cursorIndex' = Min(pasteStart + Len(toInsert), Len(commands'))
            /\ selection' = Null]_vars

\* A read has resolved after the cursor or the selection changed under it.
PasteAfterMoveDone == lastOp.op = "pasteResolve" /\ lastOp.info = "moved"

\* C10: a key insert of one token while a selection {start, end} is active
\* on a buffer of length L yields length L - (end - start) + 1, the new token
\* at index start, the unselected tokens in their order around it, a null
\* selection and the cursor at start + 1; with no selection the token goes in
\* at the cursor and the cursor advances by one.
InsertReplacesSelection ==
  [][(lastOp'.op \in {"notation", "linebreak"}) =>
       LET L == Len(commands)
           isNew(tok) == /\ tok.type = "notation"
                         /\ IF lastOp'.op = "linebreak" THEN tok.value = "linebreak"
                            ELSE tok.value \in NotationKeys
           newAt(i) == i \in DOMAIN commands' /\ isNew(commands'[i])
           same(i, j) == /\ i \in DOMAIN commands'
                         /\ j \in DOMAIN commands
                         /\ commands'[i] = commands[j]
       IN IF hasSel(selection)
          THEN LET start == Val(selection).start
                   end == Val(selection).end
               IN /\ Len(commands') = L - (end - start) + 1
                  /\ newAt(start + 1)
                  /\ \A i \in 1..start : same(i, i)
                  /\ \A i \in (end + 1)..L : same(i - (end - start) + 1, i)
                  /\ selection' = Null
                  /\ cursorIndex' = start + 1
          ELSE /\ Len(commands') = L + 1
               /\ newAt(cursorIndex + 1)
               /\ \A i \in 1..cursorIndex : same(i, i)
               /\ \A i \in (cursorIndex + 1)..L : same(i + 1, i)
               /\ cursorIndex' = cursorIndex + 1]_vars

\* C1: after content edits E1..En, n undos and then n redos, the token
\* sequence equals the one after En.
RoundTripRestoresLast ==
  (rt.phase = "redo" /\ rt.redos = Len(rt.trace)) =>
    commands = rt.trace[Len(rt.trace)]

\* A round trip over two edits that left tokens is complete.
RoundTripDone ==
  /\ rt.phase = "redo"
  /\ Len(rt.trace) = 2
  /\ rt.redos = 2
  /\ rt.trace[1] # <<>>
  /\ rt.trace[2] # rt.trace[1]

\* C2: after content edits E1..En and k consecutive undos, the token sequence
\* equals the one after E(n-k), the empty sequence when k = n.
UndoReachesEarlierEdit ==
  rt.phase = "undo" =>
    commands = IF rt.undos = Len(rt.trace) THEN <<>>
               ELSE rt.trace[Len(rt.trace) - rt.undos]

\* The tokens of the live sequence whose 0-based index lies outside
\* [start, end), in their order.
RECURSIVE outside(_, _, _)
outside(i, start, end) ==
  IF i > Len(commands) THEN <<>>
  ELSE (IF start <= i - 1 /\ i - 1 < end THEN <<>> ELSE <<commands[i]>>)
         \o outside(i + 1, start, end)

\* C11: Backspace and Delete with an active selection remove exactly the
\* tokens in [start, end), set the cursor to start and clear the selection;
\* with no selection Backspace removes the token at cursor - 1 and decrements
\* the cursor, Delete removes the token at cursor and keeps the cursor;
\* Backspace at cursor 0 and Delete at cursor = length leave tokens, cursor
\* and selection unchanged.
DeleteRemovesRangeOrNeighbour ==
  [][(lastOp'.op \in {"backspace", "delete"}) =>
       IF hasSel(selection)
       THEN /\ commands' = outside(1, Val(selection).start, Val(selection).end)
            /\ cursorIndex' = Val(selection).start
            /\ selection' = Null
       ELSE IF lastOp'.op = "backspace"
            THEN IF cursorIndex = 0
                 THEN UNCHANGED <<commands, cursorIndex, selection>>
                 ELSE /\ commands' = outside(1, cursorIndex - 1, cursorIndex)
                      /\ cursorIndex' = cursorIndex - 1
            ELSE IF cursorIndex = Len(commands)
                 THEN UNCHANGED <<commands, cursorIndex, selection>>
                 ELSE /\ commands' = outside(1, cursorIndex, cursorIndex + 1)
                      /\ cursorIndex' = cursorIndex]_vars

\* C12: in every reachable state 0 <= cursor <= length of the token sequence.
CursorWithinTokens == 0 <= cursorIndex /\ cursorIndex <= Len(commands)

\* C13: in every reachable state the selection is null or a range with
\* 0 <= start < end <= length.
SelectionWithinTokens ==
  \/ selection = Null
  \/ /\ 0 <= Val(selection).start
     /\ Val(selection).start < Val(selection).end
     /\ Val(selection).end <= Len(commands)

\* C14: over an unbroken run of consecutive frames that decode the same
\* non-neutral direction, exactly one tap token of it has been emitted, and
\* exactly one hold token if and only if the run has lasted
\* HOLD_FRAME_THRESHOLD frames, whatever operations interleave.
OneTapOneHoldPerRun ==
  run.ticks > 0 =>
    /\ run.taps = 1
    /\ run.holds = IF run.ticks >= HOLD_FRAME_THRESHOLD THEN 1 ELSE 0

\* The tokens the frame about to run decides, and where it puts them.
frameAdds ==
  frameTokens(Session, findDirectionFromKeys(pressedKeys, keyMapping),
              findButtonFromKeys(pressedKeys, keyMapping),
              findSpecialFromKeys(pressedKeys, keyMapping))
frameAt ==
  IF hasSel(selection) THEN Val(selection).start
  ELSE Min(cursorIndex, Len(commands))
frameEndAt == IF hasSel(selection) THEN Val(selection).end ELSE frameAt

\* The frame decides nothing but the hold variant of a direction.
onlyHoldFrame ==
  /\ ~isTextMode
  /\ Len(frameAdds) = 1
  /\ frameAdds[1].type = "direction"
  /\ endsWithHold(frameAdds[1].value)

\* C15: when a frame's only token is the hold variant of direction d and the
\* token before the insertion point is the tap of d, the tap is replaced by
\* the hold token (length unchanged when no selection is active, cursor
\* unchanged); otherwise the hold token is inserted as an additional token.
HoldReplacesTap ==
  [][(lastOp'.op = "tick" /\ onlyHoldFrame) =>
       LET h == frameAdds[1]
           at == frameAt
       IN IF at > 0 /\ at <= Len(commands)
               /\ commands[at] = Direction(stripHold(h.value))
          THEN /\ commands' = splice(commands, at - 1, frameEndAt, <<h>>)
               /\ ~hasSel(selection) => Len(commands') = Len(commands)
               /\ cursorIndex' = cursorIndex
          ELSE commands' = splice(commands, at, frameEndAt, <<h>>)]_vars

\* The frame about to run is a heat activation that follows an earlier one by
\* less than the double-press window, decides no other token, and finds the
\* tokens and the cursor as the earlier activation left them.
secondHeatPress ==
  /\ ~isTextMode
  /\ findSpecialFromKeys(pressedKeys, keyMapping) = "heat"
  /\ prevSpecial # "heat"
  /\ Len(frameAdds) = 1
  /\ heatPress.at > 0
  /\ now - heatPress.at < HEAT_DOUBLE_PRESS_MS
  /\ commands = heatPress.tokens
  /\ cursorIndex = heatPress.pos

firstHeatSmashed == [heatPress.tokens EXCEPT ![heatPress.pos] = Special("heatSmash")]

editEnds ==
  /\ isTextMode
  /\ textEditIndex # Null
  /\ trim(currentText) # <<>>
  /\ \/ lastOp'.op = "finishText"
     \/ lastOp'.op = "toggleText" /\ lastOp'.info = "close"

\* C18: ending text mode that was opened on the Text token at index i, with
\* non-empty trimmed content, leaves the length unchanged and makes the token
\* at i a Text token carrying the trimmed content.
EditReplacesInPlace ==
  [][editEnds =>
       /\ Len(commands') = Len(commands)
       /\ Val(textEditIndex) < Len(commands')
       /\ commands'[Val(textEditIndex) + 1] = Text(join(trim(currentText)))]_vars

\* The Text tokens a step adds: those with more occurrences after it.
gainedText ==
  {commands'[i] : i \in {j \in DOMAIN commands' :
                           /\ commands'[j].type = "text"
                           /\ occurrences(commands', commands'[j])
                                > occurrences(commands, commands'[j])}}

\* The step ends text mode by confirmation, by the toggle or by cancel.
modeEnds ==
  /\ isTextMode
  /\ ~isTextMode'
  /\ lastOp'.op \in {"finishText", "toggleText", "textEscape"}

trimmedDraft == trim(currentText)

\* C19: a Text token enters the tokens only in a step that ends text mode
\* with a draft that is not empty after trimming; ending the mode with an
\* empty trimmed draft leaves the tokens unchanged; a committed Text token
\* carries the trimmed draft.
TextEntersOnlyAtCommit ==
  [][/\ gainedText # {} => modeEnds /\ trimmedDraft # <<>>
     /\ (modeEnds /\ trimmedDraft = <<>>) => commands' = commands
     /\ modeEnds => gainedText \subseteq {Text(join(trimmedDraft))}]_vars

\* C19 for the steps that end text mode: with an empty trimmed draft the
\* tokens are unchanged, otherwise a Text token the step adds carries the
\* trimmed draft.
TextCommitCarriesDraft ==
  [][modeEnds =>
       IF trimmedDraft = <<>> THEN commands' = commands
       ELSE gainedText \subseteq {Text(join(trimmedDraft))}]_vars

\* A new Text token was committed by finishTextInput, the draft emptied.
TextCommitDone ==
  /\ lastOp.op = "finishText"
  /\ lastOp.info = "new"
  /\ ~isTextMode
  /\ currentText = <<>>
  /\ cursorIndex > 0
  /\ cursorIndex <= Len(commands)
  /\ commands[cursorIndex] = Text("a")

Diagonals == {"ub", "uf", "db", "df"}

\* The diagonals whose dedicated binding is configured and fully held, and
\* those with no dedicated binding whose two orthogonal bindings are held.
dedicatedHeld ==
  LET dirs == keyMapping.directions
  IN {g \in Diagonals \cap DOMAIN dirs :
        dirs[g] # {} /\ dirs[g] \subseteq pressedKeys}

derivedHeld ==
  LET dirs == keyMapping.directions
      part == [ub |-> <<"u", "b">>, uf |-> <<"u", "f">>,
               db |-> <<"d", "b">>, df |-> <<"d", "f">>]
  IN {g \in Diagonals \ DOMAIN dirs :
        \A i \in 1..2 : /\ dirs[part[g][i]] # {}
                        /\ dirs[part[g][i]] \subseteq pressedKeys}

\* C20: a frame decodes a diagonal whose dedicated binding is configured and
\* held as that diagonal; with no dedicated binding held it decodes a diagonal
\* that has none configured from the two orthogonal bindings.
DiagonalDecode ==
  [][(lastOp'.op = "tick" /\ ~isTextMode) =>
       /\ dedicatedHeld # {} => prevDirection' \in dedicatedHeld
       /\ (dedicatedHeld = {} /\ derivedHeld # {}) =>
            prevDirection' \in derivedHeld]_vars

\* C21: pasting back the text a copy wrote puts the copied tokens in place of
\* the selection, or at the cursor: parse(serialize(tokens)) = tokens for
\* directions, buttons, specials, structural marks (line break included) and
\* Text tokens with quotes and backslashes.
ClipboardRoundTrip ==
  [][lastOp'.op = "pasteCopied" =>
       commands' = splice(commands, pasteStart, pasteEnd, rt.source)]_vars

\* The session after the step, as a record.
SessionAfter ==
  [commands |-> commands', cursorIndex |-> cursorIndex',
   selection |-> selection', isTextMode |-> isTextMode',
   textEditIndex |-> textEditIndex', currentText |-> currentText',
   commandsRef |-> commandsRef', cursorIndexRef |-> cursorIndexRef',
   selectionRef |-> selectionRef', textEditIndexRef |-> textEditIndexRef',
   pressedKeys |-> pressedKeys', history |-> history',
   historyIndex |-> historyIndex', historyFlag |-> historyFlag',
   scene |-> scene', prevDirection |-> prevDirection',
   framesHeld |-> framesHeld', prevButton |-> prevButton',
   prevSpecial |-> prevSpecial',
   didReplaceHeatWithSmash |-> didReplaceHeatWithSmash',
   lastHeatPressTime |-> lastHeatPressTime', now |-> now',
   commandsChanged |-> FALSE]

\* The step is a content edit that is carried out: a text commit, a delete,
\* a cut, a paste, a clear or a line break that changes the tokens.
contentEdit ==
  /\ lastOp'.op \in {"finishText", "toggleText", "backspace", "delete", "cut",
                     "pasteResolve", "clear", "linebreak"}
  /\ commands' # commands

\* C22: every content edit that is carried out pushes before it changes the
\* tokens, whatever the flag, so that one undo afterwards restores the tokens
\* that were present before the edit.
ContentEditUndoable ==
  [][contentEdit => Render(undo(SessionAfter)).commands = commands]_vars

\* The step is a sampled insert: a frame that commits tokens, or a bracket,
\* paren, tilde or next key.
sampledInsert ==
  \/ lastOp'.op = "notation"
  \/ lastOp'.op = "tick" /\ lastOp'.info # "idle"

\* The log after the entries beyond idx are dropped, the live state is
\* appended and the oldest entries beyond the capacity are evicted.
logWithLive ==
  LET pushed == Append(SubSeq(history, 1, historyIndex + 1),
                       [commands |-> commands, cursorIndex |-> cursorIndex,
                        selection |-> selection])
  IN SubSeq(pushed, Max(0, Len(pushed) - HISTORY_MAX) + 1, Len(pushed))

\* Neither branch of the save policy leaves the flag set, and with the flag
\* clear the log and idx stay and scene becomes log.length + 1.
unflaggedInsertKeepsLog ==
  /\ historyFlag' = 0
  /\ historyFlag = 0 =>
       /\ history' = history
       /\ historyIndex' = historyIndex
       /\ scene' = Len(history) + 1

\* C23: a sampled insert pushes a snapshot of the live state if and only if
\* the flag is set; with the flag clear the log and idx are unchanged and
\* scene becomes log.length + 1; the flag is clear afterwards.
SampledInsertSavesIffFlagged ==
  [][sampledInsert =>
       /\ unflaggedInsertKeepsLog
       /\ historyFlag = 1 =>
            /\ history' = logWithLive
            /\ historyIndex' = Len(history') - 1
            /\ scene' = Len(history') + 1]_vars

\* C23 with the first-edit case of the push: with the flag set at idx = 0 and
\* scene = 1 no snapshot is appended, the entries after log[0] are dropped
\* and scene becomes 2.
SampledInsertPushesIffFlagged ==
  [][sampledInsert =>
       /\ unflaggedInsertKeepsLog
       /\ historyFlag = 1 =>
            IF historyIndex = 0 /\ scene = 1
            THEN /\ history' = SubSeq(history, 1, 1)
                 /\ historyIndex' = 0
                 /\ scene' = 2
            ELSE /\ history' = logWithLive
                 /\ historyIndex' = Len(history') - 1
                 /\ scene' = Len(history') + 1]_vars

\* A frame has committed tokens with the flag set and a snapshot was pushed
\* behind an earlier one.
FlaggedFrameSaved ==
  /\ lastOp.op = "tick"
  /\ lastOp.pushed
  /\ Len(history) > 1
  /\ historyIndex = Len(history) - 1
  /\ historyFlag = 0

\* The session after undo and after undo followed at once by redo.
afterUndo == Render(undo(Session))
afterUndoRedo == Render(redo(afterUndo))

\* C24: in every state where undo takes effect, undo followed at once by redo
\* restores the tokens, the cursor and the selection that were live before
\* the undo.
RedoInvertsUndo ==
  (~isTextMode /\ undoActs) =>
    /\ afterUndoRedo.commands = commands
    /\ afterUndoRedo.cursorIndex = cursorIndex
    /\ afterUndoRedo.selection = selection

\* The step is an undo that takes effect.
effectiveUndo == lastOp'.op = "undo" /\ undoActs

\* The snapshot log[idx] is live after the step, idx has moved down unless it
\* was 0, and the flag is set.
restoredAt(snap) ==
  /\ commands' = snap.commands
  /\ cursorIndex' = snap.cursorIndex
  /\ selection' = snap.selection
  /\ historyIndex' = IF historyIndex > 0 THEN historyIndex - 1 ELSE historyIndex
  /\ historyFlag' = 1

undoBehindEdit ==
  /\ lastOp'.op = "undo"
  /\ rt.group.phase = "run"
  /\ rt.group.fromEdit
  /\ ~rt.group.flagged

\* C26: when a content edit is followed by sampled inserts made while the
\* flag stays clear, the first undo restores the tokens as they were
\* immediately after the content edit.
UndoKeepsContentEdit ==
  [][undoBehindEdit => commands' = rt.group.afterEdit]_vars

\* C26 as the log has it: the first undo restores the snapshot the content
\* edit's push left at idx, the tokens as they were before the content edit
\* (the empty sequence when the push was the first edit's and appended
\* nothing), so the sampled inserts and the content edit go together.
UndoRemovesContentEdit ==
  [][undoBehindEdit =>
       /\ commands' = IF rt.group.appended THEN rt.group.beforeEdit ELSE <<>>
       /\ commands' # rt.group.afterEdit]_vars

\* The first undo behind a delete and a sampled insert has acted.
UndoBehindEditDone ==
  /\ lastOp.op = "undo"
  /\ lastOp.info = "acted"
  /\ rt.group.phase = "undone"
  /\ rt.group.fromEdit
  /\ ~rt.group.flagged
  /\ Len(rt.group.afterEdit) < Len(rt.group.beforeEdit)

\* The step is a sampled insert that follows another one with no other event
\* between them.
insertInRun ==
  /\ rt.group.phase = "run"
  /\ rt'.group.phase = "run"
  /\ rt'.group.count = rt.group.count + 1

\* The step is the undo behind a run of sampled inserts that began in the
\* state saved at log[idx].
undoBehindRun ==
  /\ lastOp'.op = "undo"
  /\ rt.group.phase = "run"
  /\ history[historyIndex + 1] = rt.group.base

\* The step is the redo behind that undo.
redoBehindRun ==
  /\ lastOp'.op = "redo"
  /\ rt.group.phase = "undone"
  /\ rt.group.saved

\* C27: consecutive sampled inserts with no cursor or selection change
\* between them add no snapshot to the log; a single undo behind them
\* restores the state that was live when the run began, provided that state
\* is the one saved at log[idx]; a redo then brings all of them back.
GroupedUndo ==
  [][/\ insertInRun => history' = history /\ historyIndex' = historyIndex
     /\ undoBehindRun =>
          /\ commands' = rt.group.base.commands
          /\ cursorIndex' = rt.group.base.cursorIndex
          /\ selection' = rt.group.base.selection
     /\ redoBehindRun => commands' = rt.group.last]_vars

\* C28: in every reachable state a clear flag implies idx = log.length - 1,
\* the live state being at the tip with no entries stored beyond idx.
ClearFlagAtTip == historyFlag = 0 => historyIndex = Len(history) - 1

\* With the flag clear, more than one entry is in the log and an insert has
\* taken the branch that does not push.
UnflaggedInsertAtTip ==
  /\ lastOp.op = "notation"
  /\ ~lastOp.pushed
  /\ historyFlag = 0
  /\ Len(history) > 1
  /\ scene = historyIndex + 2

\* C29: in every reachable state the log is non-empty, 0 <= idx < log.length,
\* scene <= log.length + 1, and scene is idx + 1 or idx + 2, idx + 1 only
\* with idx = 0.
SceneWithinLog ==
  /\ Len(history) >= 1
  /\ 0 <= historyIndex
  /\ historyIndex < Len(history)
  /\ scene <= Len(history) + 1
  /\ scene \in {historyIndex + 1, historyIndex + 2}
  /\ scene = historyIndex + 1 => historyIndex = 0

\* Undo has gone down to idx = 0 from above: scene is idx + 1 there, with
\* entries stored beyond idx.
BottomSceneReached ==
  /\ lastOp.op = "undo"
  /\ lastOp.info = "acted"
  /\ historyIndex = 0
  /\ scene = 1
  /\ Len(history) > 2

\* C30: whenever undo restores at idx = 0, log[0] holds the empty token
\* sequence, so the tokens the undo makes live are those stored in log[0],
\* also after the oldest entries of a full log were evicted.
UndoAtBottomRestoresLogHead ==
  [][(effectiveUndo /\ historyIndex = 0) =>
       /\ history[1].commands = <<>>
       /\ commands' = history[1].commands]_vars

\* What a push at capacity leaves: the oldest entry gone, the others in
\* order, the live state appended and idx on it, at most the capacity
\* stored, the flag clear and scene one past the log.
pushedAtCapacity ==
  /\ history' = Append(SubSeq(history, 2, Len(history)), live)
  /\ Len(history') = HISTORY_MAX
  /\ historyIndex' = Len(history') - 1
  /\ historyFlag' = 0
  /\ scene' = Len(history') + 1

\* C31: a push performed when the log already holds H snapshots evicts the
\* oldest entry, keeps the remaining entries in order and leaves
\* log.length = H, idx = log.length - 1 on the appended snapshot, the flag
\* clear and scene = log.length + 1.
PushAtCapacityEvicts ==
  [][(lastOp'.pushed /\ Len(history) = HISTORY_MAX) => pushedAtCapacity]_vars

\* C31 for a push at the tip: with idx on the last of H snapshots nothing is
\* truncated and the oldest entry is evicted; below the tip the entries after
\* idx are dropped first and nothing is evicted.
PushAtTipEvicts ==
  [][(lastOp'.pushed /\ Len(history) = HISTORY_MAX) =>
       IF historyIndex = Len(history) - 1
       THEN pushedAtCapacity
       ELSE /\ historyIndex = 0 /\ scene = 1 =>
                 history' = SubSeq(history, 1, 1) /\ scene' = 2
            /\ ~(historyIndex = 0 /\ scene = 1) =>
                 /\ history' = Append(SubSeq(history, 1, historyIndex + 1), live)
                 /\ historyIndex' = Len(history') - 1
                 /\ scene' = Len(history') + 1
            /\ Len(history') <= HISTORY_MAX
            /\ historyFlag' = 0]_vars

\* A push at the tip of a full log has evicted the initial snapshot.
EvictedAtTip ==
  /\ lastOp.pushed
  /\ Len(history) = HISTORY_MAX
  /\ historyIndex = HISTORY_MAX - 1
  /\ history[1] # initialHistoryState
  /\ scene = HISTORY_MAX + 1

\* C32: a push performed while idx = 0 and scene = 1 appends no snapshot; it
\* sets scene to 2 and clears the flag, and it removes every entry after
\* index 0, so the log is the single entry log[0] afterwards.
FirstEditPushAppendsNothing ==
  [][(lastOp'.pushed /\ historyIndex = 0 /\ scene = 1) =>
       /\ history' = SubSeq(history, 1, 1)
       /\ historyIndex' = 0
       /\ scene' = 2
       /\ historyFlag' = 0]_vars

\* A push in the first-edit case has dropped the entries an undo had left
\* after index 0.
FirstEditPushTruncated ==
  /\ lastOp.pushed
  /\ lastOp.chain = 2
  /\ Len(history) = 1
  /\ historyIndex = 0
  /\ scene = 2
  /\ historyFlag = 0

\* The step is one of the operations that move the cursor or the selection,
\* and it has changed one of them and not the tokens.
navigation ==
  /\ lastOp'.op \in {"setCursor", "setSelection", "arrow", "selectAllKey",
                     "selectAll", "clearSelection"}
  /\ commands' = commands
  /\ cursorIndex' # cursorIndex \/ selection' # selection

\* C33: every operation that changes only the cursor or the selection
\* (setCursor, setSelection, arrow keys, Home/End, select-all by key or by
\* API, clear-selection-and-move-cursor-to-end) leaves the flag set.
NavigationSetsFlag ==
  [][navigation => historyFlag' = 1]_vars

\* The frame about to run is a heat activation: the heat key is newly held.
heatActivation ==
  /\ ~isTextMode
  /\ findSpecialFromKeys(pressedKeys, keyMapping) = "heat"
  /\ prevSpecial # "heat"

\* A heat token was emitted less than the double-press window ago, and the
\* token before the cursor is a heat token.
heatInWindow == heatPress.at > 0 /\ now - heatPress.at < HEAT_DOUBLE_PRESS_MS
heatBeforeCursor ==
  /\ cursorIndex > 0
  /\ cursorIndex <= Len(commands)
  /\ commands[cursorIndex] = Special("heat")

\* C34: a heat activation emits heatSmash only when a heat token was emitted
\* less than 400 ms earlier and the token before the cursor is that heat
\* token, which the heatSmash token then replaces; a heat activation whose
\* preceding token is not heat emits a plain heat token.
HeatSmashOnlyOverHeat ==
  [][(lastOp'.op = "tick" /\ heatActivation) =>
       LET special == frameAdds[Len(frameAdds)]
       IN IF heatInWindow /\ heatBeforeCursor
          THEN /\ special = Special("heatSmash")
               /\ Len(frameAdds) = 1 /\ ~hasSel(selection) =>
                    commands' = [commands EXCEPT ![cursorIndex] = special]
          ELSE special = Special("heat")]_vars

\* The frame about to run decides tokens and neither replace-last rule can
\* apply to them: they are not a lone hold direction or a lone heatSmash.
plainFrame ==
  /\ ~isTextMode
  /\ frameAdds # <<>>
  /\ ~onlyHoldFrame
  /\ frameAdds # <<Special("heatSmash")>>

\* C35: the tokens a frame decides are placed contiguously at the cursor, or
\* in place of the active selection, in the order direction, button, special;
\* afterwards the selection is null and the cursor is the insertion start
\* plus the number of tokens inserted.
FrameCommitsAtCursor ==
  [][(lastOp'.op = "tick" /\ plainFrame) =>
       /\ commands' = splice(commands, pasteStart, pasteEnd, frameAdds)
       /\ selection' = Null
       /\ cursorIndex' = pasteStart + Len(frameAdds)]_vars

\* C36: when two inserts run one after the other before the mirrors are
\* re-synchronised, the second one's tokens land immediately after the first
\* one's and the cursor ends just past both.
BatchKeepsOrder ==
  [][lastOp'.op = "batch" =>
       /\ commands' = splice(commands, pasteStart, pasteEnd, rt'.source)
       /\ cursorIndex' = pasteStart + Len(rt'.source)]_vars

\* C37: the pending text-edit index is non-null only while text mode is
\* active; every operation that ends text mode resets it.
EditIndexOnlyInTextMode == ~isTextMode => textEditIndex = Null

\* One Push of the live state has been performed, in its first-edit case or
\* by appending.
onePush ==
  /\ historyFlag' = 0
  /\ IF historyIndex = 0 /\ scene = 1
     THEN history' = SubSeq(history, 1, 1) /\ historyIndex' = 0 /\ scene' = 2
     ELSE /\ history' = logWithLive
          /\ historyIndex' = Len(history') - 1
          /\ scene' = Len(history') + 1

\* C38: a paste whose text yields n >= 1 recognised tokens splices exactly
\* those, in order, at the cursor or in place of the selected range; the
\* cursor becomes the insertion start plus n, the selection null, and one
\* Push is performed.  A paste whose text yields no recognised token changes
\* none of tokens, cursor, selection, log, idx, scene and flag.
PasteSplicesRecognised ==
  [][lastOp'.op = "pasteResolve" =>
       IF lastOp'.info = "empty"
       THEN UNCHANGED <<commands, cursorIndex, selection, history, historyIndex,
                        scene, historyFlag>>
       ELSE \E text \in ClipboardTokens :
              LET toInsert == parseTokens(text)
              IN /\ toInsert # <<>>
                 /\ commands' = splice(commands, pasteStart, pasteEnd, toInsert)
                 /\ cursorIndex' = pasteStart + Len(toInsert)
                 /\ selection' = Null
                 /\ onePush]_vars

\* C39: during an unbroken run of Shift+Left and Shift+Right presses that
\* began with no selection and the cursor at c, after every press the
\* selection is the range between c and the cursor, and null when the cursor
\* is back at c.
ShiftRunAnchored ==
  [][(lastOp'.op = "arrow" /\ lastOp'.info = "shift" /\ rt'.anchor # Null) =>
       LET c == Val(rt'.anchor)
       IN selection' = IF cursorIndex' = c THEN Null
                       ELSE Some(Range(Min(c, cursorIndex'), Max(c, cursorIndex')))]_vars

\* The orthogonal directions whose binding is configured and fully held.
orthogonalHeld ==
  LET dirs == keyMapping.directions
  IN {g \in {"u", "d", "f", "b"} : dirs[g] # {} /\ dirs[g] \subseteq pressedKeys}

\* C40: with no dedicated diagonal binding, a frame decodes a diagonal only
\* when both of its orthogonal bindings are configured and held; with the keys
\* of orthogonal directions held and no such diagonal it decodes one of those
\* orthogonal directions, and a held diagonal takes precedence over them.
DerivedDiagonalDecode ==
  [][(lastOp'.op = "tick" /\ ~isTextMode
       /\ Diagonals \cap DOMAIN keyMapping.directions = {}) =>
       /\ (prevDirection' \in Diagonals) => (prevDirection' \in derivedHeld)
       /\ (derivedHeld # {}) => (prevDirection' \in derivedHeld)
       /\ (derivedHeld = {} /\ orthogonalHeld # {}) =>
            (prevDirection' \in orthogonalHeld)]_vars

=============================================================================
